---- MODULE Spec2Model ----
(***************************************************************************)
(* Model of the embedding ingestion pipeline and of the context assembly   *)
(* of angel-app/data-pipeline (embeddings.py, migrate_transcriptions.py,   *)
(* therapist_context_manager.py).                                          *)
(*                                                                         *)
(*   Spec      the ingestion run: checkpoint load, cursor loop,            *)
(*             process_batch, commit buffer, final commit, flush points,   *)
(*             and successive runs over the same checkpoint file / index.  *)
(*   SpecPII   the path of one turn's text: the sanitizer of the migration  *)
(*             (remove_pii, lower-casing, normalisation), then              *)
(*             preprocess_text and the embedding call of the ingestion.     *)
(*   SpecRLSeq RateLimitState driven by one caller, one whole call a step. *)
(*   SpecRL    RateLimitState driven by the worker threads, which share it *)
(*             without a lock: one step per access to a shared attribute.  *)
(*   SpecAPI   get_batch_embeddings and wait_if_needed run by the worker   *)
(*             threads against a clock.                                    *)
(*   SpecCtx   one build_context request of therapist_context_manager.py.  *)
(*   SpecScenario  build_context on 3-turn sessions of 50 estimated tokens *)
(*             under a budget of 100.                                      *)
(*   SpecSearch, SpecFormat, SpecChunk, SpecSanitize, SpecCrisis,          *)
(*   SpecTransform   one call each of search_similar_conversations,        *)
(*             format_for_llm, chunk_text, the sanitizer (twice),          *)
(*             detect_crisis_content and transform_transcription.          *)
(*   SpecSub   the sub-batch loop of process_conversation beside the other *)
(*             workers' changes of the batch size.                         *)
(*   SpecBackoff   the waits of one get_batch_embeddings call.             *)
(*   SpecOutcomes  the responses to one worker's embedding calls and what  *)
(*             they do to RateLimitState.                                  *)
(*   SpecRecovery  SpecRLSeq under weak fairness of the successful calls.  *)
(*   SpecTags  extract_symptoms and extract_coping_strategies on one       *)
(*             conversation.                                               *)
(*   SpecLabel the speaker label and turn index process_conversation gives *)
(*             to each chunk.                                              *)
(*   SpecProfile   the clinical annotations from transform_transcription   *)
(*             to the metadata of the stored records.                      *)
(***************************************************************************)
EXTENDS Integers, Sequences, FiniteSets, TLC

(***************************************************************************)
(* Bounds of the model.                                                    *)
(***************************************************************************)
NumConvs == 3            \* conversations in the source collection
MaxChunks == 2           \* chunks a conversation yields at most
MaxRuns == 2             \* successive runs of the script
MONGO_BATCH_SIZE == 2    \* embeddings.py:84 (default 100), scaled down
BATCH_COMMIT_SIZE == 2   \* embeddings.py:79 (default 1000), scaled down
buffer_size == 2         \* embeddings.py:748 (buffer_size=50), scaled down
MAX_WORKERS == 2         \* embeddings.py:55

ConvIds == 1..NumConvs

VARIABLES
    \* ---- configuration (environment), fixed during a run
    CHECK_EXISTING,        \* embeddings.py:48
    source,                \* conversation id -> number of chunks it yields
    \* ---- durable state, survives a run
    ckFile,                \* CHECKPOINT_FILE: sequence of lines (ids)
    index,                 \* vector index: record -> number of stored objects
    \* ---- state of one run (one process)
    pc,                    \* position of the main thread
    run,                   \* number of the current run
    pos,                   \* documents consumed from mongo_cursor
    conversations_batch,   \* embeddings.py:775
    fut,                   \* futures of process_batch: id -> state
    partial,               \* id -> chunks its worker has embedded (insert_data)
    processed_ids,         \* embeddings.py:747
    ckBuffer,              \* CheckpointWriter.buffer
    insert_buffer,         \* embeddings.py:755
    endKind,               \* how the run ended
    \* ---- history variables (observations only, never read by the program)
    startCk,               \* ids in the checkpoint file when the process started
    startIndex,            \* the vector index when the process started
    saved,                 \* ids passed to CheckpointWriter.save in this run
    skipped,               \* ids checkpointed through the "embeddings exist" path
    embedFailed,           \* ids whose embedding raised in this run
    submitted,             \* ids submitted to process_conversation in this run
    insertFailed,          \* bulk_insert_embeddings raised in this run
    \* ---- the text of one turn (SpecPII)
    REMOVE_HIPAA_KEYWORDS, \* embeddings.py:103
    REMOVE_FILLER_WORDS,   \* embeddings.py:51
    raw_text,              \* the turn's text as captured
    document,              \* the message text in the collection that is read
    migrated,              \* the document was written by transform_transcription
    stage,                 \* "stored", "embedded", "skipped"
    api_text,              \* the text handed to the embedding API
    \* ---- the adaptive rate-limit state (SpecRLSeq, SpecRL)
    ADAPTIVE_BATCH_SIZING, \* embeddings.py:44
    MIN_BATCH_SIZE,        \* embeddings.py:45
    MAX_BATCH_SIZE,        \* embeddings.py:40
    rate_limit_state,      \* embeddings.py:316
    wpc,                   \* worker thread -> its position inside a call
    wtmp,                  \* worker thread -> the value it has loaded
    lastCall,              \* the last whole call and the state it started from
    hitCalls,              \* history: on_rate_limit calls that have counted their hit
    \* ---- get_batch_embeddings run by the worker threads (SpecAPI)
    now,                   \* time.time(), in ticks
    last_request_time,     \* embeddings.py:285
    apc,                   \* worker thread -> its position in get_batch_embeddings
    retry_count,           \* worker thread -> retry_count of its innermost call
    wake,                  \* worker thread -> the time its time.sleep ends
    batchNo,               \* worker thread -> sub-batches it has started
    attempts,              \* history: API calls made for the thread's current batch
    lastEnd,               \* history: the time the latest API call ended
    lastGap,               \* history: at the latest API call's start, the time
                           \* since the end of the call before it
    response,              \* history: worker thread -> the response to its
                           \* latest API call, "none" while it is awaited
    \* ---- one build_context request (SpecCtx, SpecScenario)
    request,               \* the arguments of build_context
    pg_up,                 \* the relational store answers
    weaviate_up,           \* the vector index answers
    summaries,             \* user -> the user's recent conversations, newest first
    chunks,                \* the index's nearest chunks to the query, all users'
    context,               \* the bundle build_context returned
    cstage,                \* "request", "returned" or "raised"
    \* ---- one call of a function on its own (SpecSearch and the like)
    args,                  \* the arguments of the call
    result,                \* what the call returned
    fstage                 \* "idle", "call" or "done"

runVars == <<CHECK_EXISTING, source, ckFile, index, pc, run, pos,
             conversations_batch, fut, partial, processed_ids, ckBuffer,
             insert_buffer,
             endKind, startCk, startIndex, saved, skipped, embedFailed,
             submitted, insertFailed>>

piiVars == <<REMOVE_HIPAA_KEYWORDS, REMOVE_FILLER_WORDS, raw_text, document,
             migrated, stage, api_text>>

rlVars == <<ADAPTIVE_BATCH_SIZING, MIN_BATCH_SIZE, MAX_BATCH_SIZE,
            rate_limit_state, wpc, wtmp, lastCall, hitCalls>>

apiVars == <<now, last_request_time, apc, retry_count, wake, batchNo, attempts,
             lastEnd, lastGap, response>>

ctxVars == <<request, pg_up, weaviate_up, summaries, chunks, context, cstage>>

fnVars == <<args, result, fstage>>

vars == <<runVars, piiVars, rlVars, apiVars, ctxVars, fnVars>>

(***************************************************************************)
(* Helpers.                                                                *)
(***************************************************************************)
SeqToSet(s) == {s[i] : i \in 1..Len(s)}

Records == ConvIds \X (1..MaxChunks)

\* the source collections considered: conversation c yields
\* (c + shift) mod (MaxChunks + 1) chunks, so that every conversation is
\* empty in one, short in another and longest in a third
Sources == {[c \in ConvIds |-> (c + shift) % (MaxChunks + 1)] : shift \in 0..MaxChunks}

\* the records the worker of conversation c holds in insert_data, in chunk
\* order
RecordsOf(c) == [k \in 1..partial[c] |-> <<c, k>>]

\* number of objects of conversation c in the index
CountOf(c) == LET RECURSIVE sum(_)
                  sum(k) == IF k = 0 THEN 0 ELSE index[<<c, k>>] + sum(k - 1)
              IN sum(MaxChunks)

(***************************************************************************)
(* CheckpointWriter (embeddings.py:528-553) and load_checkpoint (555-562). *)
(* A writer state is [buffer, file]; the lock makes save and flush atomic. *)
(***************************************************************************)
\* _flush: append the buffered ids as lines, then empty the buffer
CheckpointWriter_flush(w) ==
    IF w.buffer # <<>>
    THEN [buffer |-> <<>>, file |-> w.file \o w.buffer]
    ELSE w

\* save: append to the buffer, flush when buffer_size is reached
CheckpointWriter_save(w, call_id) ==
    LET b == [w EXCEPT !.buffer = Append(w.buffer, call_id)]
    IN IF Len(b.buffer) >= buffer_size THEN CheckpointWriter_flush(b) ELSE b

\* a loader that misses the last line of the file
load_checkpoint_short(file) ==
    IF file = <<>> THEN {} ELSE SeqToSet(SubSeq(file, 1, Len(file) - 1))

\* load_checkpoint: the set of the file's lines
load_checkpoint(file) == SeqToSet(file)

(***************************************************************************)
(* bulk_insert_embeddings (embeddings.py:564-596): batch.add_object is     *)
(* called without a uuid, so every call stores a new object.               *)
(***************************************************************************)
RECURSIVE bulk_insert_embeddings(_, _)
bulk_insert_embeddings(idx, batch_data) ==
    IF batch_data = <<>> THEN idx
    ELSE bulk_insert_embeddings(
             [idx EXCEPT ![Head(batch_data)] = @ + 1], Tail(batch_data))

\* check_embedding_exists (embeddings.py:444-459): the aggregate count of
\* the conversation's objects, or False when the query raises
check_embedding_exists(c, queryFails) ==
    IF ~CHECK_EXISTING THEN FALSE
    ELSE IF queryFails THEN FALSE
    ELSE CountOf(c) > 0

(***************************************************************************)
(* Initial state: a first run over an empty checkpoint file and index.     *)
(***************************************************************************)
InitRun ==
    /\ CHECK_EXISTING \in BOOLEAN
    /\ source \in Sources
    /\ ckFile = <<>>
    /\ index = [r \in Records |-> 0]
    /\ pc = "load"
    /\ run = 1
    /\ pos = 0
    /\ conversations_batch = <<>>
    /\ fut = [c \in ConvIds |-> "none"]
    /\ partial = [c \in ConvIds |-> 0]
    /\ processed_ids = {}
    /\ ckBuffer = <<>>
    /\ insert_buffer = <<>>
    /\ endKind = "running"
    /\ startCk = {}
    /\ startIndex = [r \in Records |-> 0]
    /\ saved = {}
    /\ skipped = {}
    /\ embedFailed = {}
    /\ submitted = {}
    /\ insertFailed = FALSE

\* the text component at rest
IdlePII ==
    /\ REMOVE_HIPAA_KEYWORDS = TRUE
    /\ REMOVE_FILLER_WORDS = TRUE
    /\ raw_text = <<>>
    /\ document = <<>>
    /\ migrated = FALSE
    /\ stage = "idle"
    /\ api_text = <<>>

Workers == 1..MAX_WORKERS

\* the rate-limit component at rest
IdleRL ==
    /\ ADAPTIVE_BATCH_SIZING = TRUE
    /\ MIN_BATCH_SIZE = 0
    /\ MAX_BATCH_SIZE = 0
    /\ rate_limit_state = [current_batch_size |-> 0, rate_limit_hits |-> 0,
                           consecutive_successes |-> 0]
    /\ wpc = [t \in Workers |-> "idle"]
    /\ wtmp = [t \in Workers |-> 0]
    /\ lastCall = [op |-> "none", old |-> rate_limit_state]
    /\ hitCalls = 0

\* the embedding client at rest
IdleAPI ==
    /\ now = 0
    /\ last_request_time = 0
    /\ apc = [t \in Workers |-> "idle"]
    /\ retry_count = [t \in Workers |-> 0]
    /\ wake = [t \in Workers |-> 0]
    /\ batchNo = [t \in Workers |-> 0]
    /\ attempts = [t \in Workers |-> 0]
    /\ lastEnd = 0
    /\ lastGap = 0
    /\ response = [t \in Workers |-> "none"]

\* no build_context request
IdleCtx ==
    /\ request = [current_session |-> <<>>, user_id |-> "none",
                  include_similar |-> FALSE, token_budget |-> 0]
    /\ pg_up = TRUE
    /\ weaviate_up = TRUE
    /\ summaries = <<>>
    /\ chunks = <<>>
    /\ context = [status |-> "none"]
    /\ cstage = "idle"

IdleFn ==
    /\ args = <<>>
    /\ result = <<>>
    /\ fstage = "idle"

\* what no step of the run changes: its configuration, and the other components
durable == <<CHECK_EXISTING, source, piiVars, rlVars, apiVars, ctxVars, fnVars>>
history == <<startCk, startIndex, skipped, embedFailed, submitted, insertFailed>>

(***************************************************************************)
(* Main thread.                                                            *)
(***************************************************************************)
\* embeddings.py:747  processed_ids = load_checkpoint()
LoadCheckpoint ==
    /\ pc = "load"
    /\ processed_ids' = load_checkpoint(ckFile)
    /\ pc' = "cursor"
    /\ UNCHANGED <<durable, partial, ckFile, index, run, pos, conversations_batch, fut,
                   ckBuffer, insert_buffer, endKind, history, saved>>

\* process_batch, line 779: every conversation of the batch is submitted
SubmitBatch(batch) ==
    /\ fut' = [c \in ConvIds |-> IF c \in SeqToSet(batch) THEN "queued" ELSE fut[c]]
    /\ submitted' = submitted \cup SeqToSet(batch)
    /\ pc' = "batch"

\* embeddings.py:822-823  id already in processed_ids: continue
CursorSkipProcessed ==
    /\ pc = "cursor" /\ pos < NumConvs
    /\ (pos + 1) \in processed_ids
    /\ pos' = pos + 1
    /\ UNCHANGED <<durable, partial, ckFile, index, pc, run, conversations_batch, fut,
                   processed_ids, ckBuffer, insert_buffer, endKind, history, saved>>

\* embeddings.py:826-832  embeddings exist: checkpoint and continue
CursorSkipExisting ==
    /\ pc = "cursor" /\ pos < NumConvs
    /\ (pos + 1) \notin processed_ids
    /\ \E queryFails \in BOOLEAN :
          /\ CHECK_EXISTING /\ check_embedding_exists(pos + 1, queryFails)
    /\ LET w == CheckpointWriter_save([buffer |-> ckBuffer, file |-> ckFile], pos + 1)
       IN /\ ckBuffer' = w.buffer
          /\ ckFile' = w.file
    /\ saved' = saved \cup {pos + 1}
    /\ skipped' = skipped \cup {pos + 1}
    /\ processed_ids' = processed_ids \cup {pos + 1}
    /\ pos' = pos + 1
    /\ UNCHANGED <<durable, partial, index, pc, run, conversations_batch, fut,
                   insert_buffer, endKind, startCk, startIndex, embedFailed,
                   submitted, insertFailed>>

\* embeddings.py:834-841  append to the batch; process it when it is full
CursorAppend ==
    /\ pc = "cursor" /\ pos < NumConvs
    /\ (pos + 1) \notin processed_ids
    /\ \E queryFails \in BOOLEAN :
          ~(CHECK_EXISTING /\ check_embedding_exists(pos + 1, queryFails))
    /\ pos' = pos + 1
    /\ conversations_batch' = Append(conversations_batch, pos + 1)
    /\ IF Len(conversations_batch') >= MONGO_BATCH_SIZE
       THEN SubmitBatch(conversations_batch')
       ELSE UNCHANGED <<fut, submitted, pc>>
    /\ UNCHANGED <<durable, partial, ckFile, index, run, processed_ids, ckBuffer,
                   insert_buffer, endKind, startCk, startIndex, saved, skipped,
                   embedFailed, insertFailed>>

\* embeddings.py:843-846  the cursor is exhausted: process the final batch
CursorEnd ==
    /\ pc = "cursor" /\ pos = NumConvs
    /\ IF conversations_batch # <<>>
       THEN SubmitBatch(conversations_batch)
       ELSE /\ pc' = "final"
            /\ UNCHANGED <<fut, submitted>>
    /\ UNCHANGED <<durable, partial, ckFile, index, run, pos, conversations_batch,
                   processed_ids, ckBuffer, insert_buffer, endKind, startCk,
                   startIndex, saved, skipped, embedFailed, insertFailed>>

(***************************************************************************)
(* Worker threads: process_conversation (embeddings.py:598-736), run by    *)
(* the ThreadPoolExecutor with at most MAX_WORKERS at a time.              *)
(***************************************************************************)
\* the conversations that occupy a worker thread; one whose embedding call
\* never returns keeps its thread
Running == {c \in ConvIds : fut[c] \in {"running", "hung"}}

StartConversation(c) ==
    /\ fut[c] = "queued"
    /\ Cardinality(Running) < MAX_WORKERS
    /\ fut' = [fut EXCEPT ![c] = "running"]
    /\ partial' = [partial EXCEPT ![c] = 0]
    /\ UNCHANGED <<durable, ckFile, index, pc, run, pos, conversations_batch,
                   processed_ids, ckBuffer, insert_buffer, endKind, history, saved>>

\* lines 709-731: one sub-batch is embedded and its records are appended to
\* the worker's insert_data
ConversationEmbedsSubBatch(c) ==
    /\ fut[c] = "running"
    /\ \E n \in 1..(source[c] - partial[c]) :
          partial' = [partial EXCEPT ![c] = @ + n]
    /\ UNCHANGED <<durable, ckFile, index, pc, run, pos, conversations_batch, fut,
                   processed_ids, ckBuffer, insert_buffer, endKind, history, saved>>

\* lines 612-613, 648-649, 703-704: nothing to embed, returns (call_id, [], 0)
\* line 736: every sub-batch was embedded, returns the records
ConversationReturns(c) ==
    /\ fut[c] = "running"
    /\ partial[c] = source[c]
    /\ fut' = [fut EXCEPT ![c] = IF source[c] = 0 THEN "empty" ELSE "records"]
    /\ UNCHANGED <<durable, partial, ckFile, index, pc, run, pos, conversations_batch,
                   processed_ids, ckBuffer, insert_buffer, endKind, history, saved>>

\* lines 732-734: get_batch_embeddings raised for a sub-batch; the error is
\* logged and (call_id, [], 0) is returned
\* a handler that returns the records of the sub-batches embedded so far
ConversationEmbedFails_keeping(c) ==
    /\ fut[c] = "running"
    /\ partial[c] < source[c]
    /\ fut' = [fut EXCEPT ![c] = IF partial[c] > 0 THEN "records" ELSE "empty"]
    /\ embedFailed' = embedFailed \cup {c}
    /\ UNCHANGED <<durable, partial, ckFile, index, pc, run, pos, conversations_batch,
                   processed_ids, ckBuffer, insert_buffer, endKind, startCk,
                   startIndex, saved, skipped, submitted, insertFailed>>

ConversationEmbedFails(c) ==
    /\ fut[c] = "running"
    /\ partial[c] < source[c]
    /\ fut' = [fut EXCEPT ![c] = "empty"]
    /\ embedFailed' = embedFailed \cup {c}
    /\ UNCHANGED <<durable, partial, ckFile, index, pc, run, pos, conversations_batch,
                   processed_ids, ckBuffer, insert_buffer, endKind, startCk,
                   startIndex, saved, skipped, submitted, insertFailed>>

\* an exception outside the try of lines 715-734 (malformed document):
\* the future holds the exception
ConversationRaises(c) ==
    /\ fut[c] = "running"
    /\ fut' = [fut EXCEPT ![c] = "raised"]
    /\ UNCHANGED <<durable, partial, ckFile, index, pc, run, pos, conversations_batch,
                   processed_ids, ckBuffer, insert_buffer, endKind, history, saved>>

\* line 484 (or 481): the embedding request never gets an answer, and
\* get_batch_embeddings does not return
ConversationHangs(c) ==
    /\ fut[c] = "running"
    /\ partial[c] < source[c]
    /\ fut' = [fut EXCEPT ![c] = "hung"]
    /\ UNCHANGED <<durable, partial, ckFile, index, pc, run, pos, conversations_batch,
                   processed_ids, ckBuffer, insert_buffer, endKind, history, saved>>

(***************************************************************************)
(* process_batch (embeddings.py:777-816): one iteration of the             *)
(* as_completed loop.                                                      *)
(***************************************************************************)
\* lines 783-807 with a result; the commit of lines 796-799 succeeds or raises
HandleResult(c, insertFails) ==
    /\ pc = "batch"
    /\ fut[c] \in {"empty", "records"}
    /\ LET insert_data == IF fut[c] = "records" THEN RecordsOf(c) ELSE <<>>
           buf == insert_buffer \o insert_data
           w == CheckpointWriter_save([buffer |-> ckBuffer, file |-> ckFile], c)
       IN /\ ckBuffer' = w.buffer
          /\ ckFile' = w.file
          /\ saved' = saved \cup {c}
          /\ processed_ids' = processed_ids \cup {c}
          /\ IF Len(buf) >= BATCH_COMMIT_SIZE
             THEN IF insertFails
                  THEN \* line 596 raises, caught at line 812: the loop goes on
                       /\ insert_buffer' = buf
                       /\ insertFailed' = TRUE
                       /\ UNCHANGED index
                  ELSE /\ index' = bulk_insert_embeddings(index, buf)
                       /\ insert_buffer' = <<>>
                       /\ UNCHANGED insertFailed
             ELSE /\ ~insertFails
                  /\ insert_buffer' = buf
                  /\ UNCHANGED <<index, insertFailed>>
    /\ fut' = [fut EXCEPT ![c] = "consumed"]
    /\ UNCHANGED <<durable, partial, pc, run, pos, conversations_batch, endKind,
                   startCk, startIndex, skipped, embedFailed, submitted>>

\* a handler that lets the worker's exception end the run
HandleException_abort(c) ==
    /\ pc = "batch"
    /\ fut[c] = "raised"
    /\ fut' = [fut EXCEPT ![c] = "consumed"]
    /\ pc' = "fatal"
    /\ UNCHANGED <<durable, partial, ckFile, index, run, pos, conversations_batch,
                   processed_ids, ckBuffer, insert_buffer, endKind, history, saved>>

\* lines 812-816: future.result() re-raises the worker's exception
HandleException(c) ==
    /\ pc = "batch"
    /\ fut[c] = "raised"
    /\ fut' = [fut EXCEPT ![c] = "consumed"]
    /\ UNCHANGED <<durable, partial, ckFile, index, pc, run, pos, conversations_batch,
                   processed_ids, ckBuffer, insert_buffer, endKind, history, saved>>

\* as_completed (line 781) yields a future only once it has finished, so
\* future.result(timeout=300) of line 783 never waits and the handler of
\* lines 809-811 is never entered; the loop ends when every future of the
\* batch has finished: process_batch returns (lines 839-841, 846)
BatchReturn ==
    /\ pc = "batch"
    /\ \A c \in ConvIds : fut[c] \in {"none", "consumed"}
    /\ fut' = [c \in ConvIds |-> "none"]
    /\ conversations_batch' = <<>>
    /\ pc' = "cursor"
    /\ UNCHANGED <<durable, partial, ckFile, index, run, pos, processed_ids, ckBuffer,
                   insert_buffer, endKind, history, saved>>

(***************************************************************************)
(* End of the run (embeddings.py:848-868).                                 *)
(***************************************************************************)
\* an end of run without the final commit
FinalCommit_skipped(insertFails) ==
    /\ pc = "final"
    /\ ~insertFails
    /\ pc' = "flush"
    /\ UNCHANGED <<durable, partial, ckFile, index, run, pos, conversations_batch, fut,
                   processed_ids, ckBuffer, insert_buffer, endKind, history, saved>>

\* lines 849-851  final commit; a failure raises into "except Exception"
FinalCommit(insertFails) ==
    /\ pc = "final"
    /\ IF insert_buffer # <<>>
       THEN IF insertFails
            THEN /\ pc' = "fatal"
                 /\ insertFailed' = TRUE
                 /\ UNCHANGED index
            ELSE /\ index' = bulk_insert_embeddings(index, insert_buffer)
                 /\ pc' = "flush"
                 /\ UNCHANGED insertFailed
       ELSE /\ ~insertFails
            /\ pc' = "flush"
            /\ UNCHANGED <<index, insertFailed>>
    /\ UNCHANGED <<durable, partial, ckFile, run, pos, conversations_batch, fut,
                   processed_ids, ckBuffer, insert_buffer, endKind, startCk,
                   startIndex, saved, skipped, embedFailed, submitted>>

\* lines 853-855  checkpoint_writer.flush() on normal completion
FlushOnCompletion ==
    /\ pc = "flush"
    /\ LET w == CheckpointWriter_flush([buffer |-> ckBuffer, file |-> ckFile])
       IN /\ ckBuffer' = w.buffer
          /\ ckFile' = w.file
    /\ pc' = "done"
    /\ endKind' = "completed"
    /\ UNCHANGED <<durable, partial, index, run, pos, conversations_batch, fut,
                   processed_ids, insert_buffer, history, saved>>

\* Ctrl-C while the try block of lines 761-858 runs
KeyboardInterrupt ==
    /\ pc \in {"cursor", "batch", "final", "flush"}
    /\ pc' = "interrupt"
    /\ UNCHANGED <<durable, partial, ckFile, index, run, pos, conversations_batch, fut,
                   processed_ids, ckBuffer, insert_buffer, endKind, history, saved>>

\* the cursor raises while it is iterated (line 818): a fatal error
CursorError ==
    /\ pc = "cursor" /\ pos < NumConvs
    /\ pc' = "fatal"
    /\ UNCHANGED <<durable, partial, ckFile, index, run, pos, conversations_batch, fut,
                   processed_ids, ckBuffer, insert_buffer, endKind, history, saved>>

\* the executor's with-block has been left: its workers have finished
ExecutorIdle == \A c \in ConvIds : fut[c] \notin {"queued", "running", "hung"}

\* an interrupt handler that exits without flushing
ExitOnInterrupt ==
    /\ pc = "interrupt"
    /\ ExecutorIdle
    /\ pc' = "done"
    /\ endKind' = "interrupted"
    /\ UNCHANGED <<durable, partial, ckFile, ckBuffer, index, run, pos, conversations_batch,
                   fut, processed_ids, insert_buffer, history, saved>>

\* lines 860-862  except KeyboardInterrupt: flush
FlushOnInterrupt ==
    /\ pc = "interrupt"
    /\ ExecutorIdle
    /\ LET w == CheckpointWriter_flush([buffer |-> ckBuffer, file |-> ckFile])
       IN /\ ckBuffer' = w.buffer
          /\ ckFile' = w.file
    /\ pc' = "done"
    /\ endKind' = "interrupted"
    /\ UNCHANGED <<durable, partial, index, run, pos, conversations_batch, fut,
                   processed_ids, insert_buffer, history, saved>>

\* lines 863-865  except Exception: flush
FlushOnError ==
    /\ pc = "fatal"
    /\ ExecutorIdle
    /\ LET w == CheckpointWriter_flush([buffer |-> ckBuffer, file |-> ckFile])
       IN /\ ckBuffer' = w.buffer
          /\ ckFile' = w.file
    /\ pc' = "done"
    /\ endKind' = "fatal"
    /\ UNCHANGED <<durable, partial, index, run, pos, conversations_batch, fut,
                   processed_ids, insert_buffer, history, saved>>

(***************************************************************************)
(* The script is started again: a new process over the same checkpoint     *)
(* file and index. An operator may have cleared the checkpoint file.       *)
(***************************************************************************)
Restart(cleared) ==
    /\ pc = "done"
    /\ run < MaxRuns
    /\ run' = run + 1
    /\ ckFile' = IF cleared THEN <<>> ELSE ckFile
    /\ startCk' = SeqToSet(ckFile')
    /\ startIndex' = index
    /\ pc' = "load"
    /\ pos' = 0
    /\ conversations_batch' = <<>>
    /\ fut' = [c \in ConvIds |-> "none"]
    /\ partial' = [c \in ConvIds |-> 0]
    /\ processed_ids' = {}
    /\ ckBuffer' = <<>>
    /\ insert_buffer' = <<>>
    /\ endKind' = "running"
    /\ saved' = {}
    /\ skipped' = {}
    /\ embedFailed' = {}
    /\ submitted' = {}
    /\ insertFailed' = FALSE
    /\ UNCHANGED <<durable, index>>

Next ==
    \/ LoadCheckpoint
    \/ CursorSkipProcessed
    \/ CursorSkipExisting
    \/ CursorAppend
    \/ CursorEnd
    \/ \E c \in ConvIds : StartConversation(c)
    \/ \E c \in ConvIds : ConversationEmbedsSubBatch(c)
    \/ \E c \in ConvIds : ConversationReturns(c)
    \/ \E c \in ConvIds : ConversationEmbedFails(c)
    \/ \E c \in ConvIds : ConversationRaises(c)
    \/ \E c \in ConvIds : ConversationHangs(c)
    \/ \E c \in ConvIds, insertFails \in BOOLEAN : HandleResult(c, insertFails)
    \/ \E c \in ConvIds : HandleException(c)
    \/ BatchReturn
    \/ \E insertFails \in BOOLEAN : FinalCommit(insertFails)
    \/ FlushOnCompletion
    \/ KeyboardInterrupt
    \/ CursorError
    \/ FlushOnInterrupt
    \/ FlushOnError
    \/ \E cleared \in BOOLEAN : Restart(cleared)

Init == InitRun /\ IdlePII /\ IdleRL /\ IdleAPI /\ IdleCtx /\ IdleFn

Spec == Init /\ [][Next]_vars

(***************************************************************************)
(* Claims about the ingestion run (specification Spec).                    *)
(***************************************************************************)

\* C1: at the end of any run (completed, interrupted or fatal), every id in
\* the checkpoint file has at least one chunk record in the vector index or
\* was checkpointed through the "already embedded, skip" path. (Stated for
\* the conversations that have text to embed; one without any yields no
\* record at all.)
C1_CheckpointInvariant ==
    pc = "done" =>
        \A id \in SeqToSet(ckFile) :
            source[id] > 0 => CountOf(id) > 0 \/ id \in skipped

\* C2: a conversation whose embedding failed is never passed to the
\* checkpoint writer nor added to processed_ids in that run.
C2_FailedNotCheckpointed ==
    \A c \in embedFailed : c \notin saved /\ c \notin processed_ids

\* C3: the checkpoint file is loaded before the first conversation is read,
\* and no conversation whose id was in the checkpoint file when the run
\* started is submitted to process_conversation during that run.
C3_NoReprocessing ==
    /\ pc = "load" => pos = 0 /\ submitted = {}
    /\ pc # "load" => startCk \subseteq processed_ids
    /\ submitted \cap startCk = {}

C3_Witness ==
    /\ run > 1
    /\ startCk # {}
    /\ pos = NumConvs
    /\ submitted # {}
    /\ pc = "done"

\* C4: whichever way a run ends, the checkpoint buffer has been flushed:
\* every id passed to CheckpointWriter.save during the run is in the
\* checkpoint file and the in-memory buffer is empty.
C4_FlushedAtExit ==
    pc = "done" => ckBuffer = <<>> /\ saved \subseteq SeqToSet(ckFile)

C4_Witness ==
    /\ pc = "done"
    /\ endKind = "interrupted"
    /\ saved # {}
    /\ Cardinality(saved) < buffer_size

\* C5: a failure of bulk_insert_embeddings, at a commit-threshold flush or
\* at the final flush, is propagated to the top level of the run as an
\* error instead of being caught and continued past.
C5_InsertFailurePropagates ==
    insertFailed => \/ pc = "fatal"
                    \/ pc = "done" /\ endKind = "fatal"

\* C6: re-ingestion is an upsert: however often a conversation is ingested,
\* the index holds each of its chunk records once; chunks are replaced,
\* never duplicated.
C6_Upsert ==
    \A r \in Records : index[r] <= 1

\* C14: failure isolation: when one conversation's embedding or processing
\* fails, every other conversation of the same batch and of later batches
\* is still processed, and the run still reaches its final index commit and
\* checkpoint flush. A run ends as fatal only on a failed final commit or
\* on a cursor error before the cursor is exhausted, never because a
\* conversation failed; and a run that completes has read every
\* conversation, has handled or submitted each one, and has committed the
\* records of each submitted conversation whose embedding succeeded.
C14_FailureIsolation ==
    /\ (pc = "done" /\ endKind = "fatal") => (insertFailed \/ pos < NumConvs)
    /\ (pc = "done" /\ endKind = "completed") =>
          /\ pos = NumConvs
          /\ \A c \in ConvIds : c \in processed_ids \/ c \in submitted
          /\ \A c \in submitted :
                (c \in processed_ids /\ c \notin embedFailed /\ source[c] > 0)
                    => CountOf(c) > 0

\* a completed run in which one conversation's embedding failed, another's
\* processing raised, and a later one was embedded and committed
C14_Witness ==
    /\ pc = "done" /\ endKind = "completed"
    /\ \E c1, c2, c3 \in ConvIds :
          /\ c1 < c3 /\ c2 < c3
          /\ c1 \in embedFailed
          /\ c2 \in submitted \ processed_ids
          /\ c3 \in submitted \ embedFailed
          /\ CountOf(c3) > 0

\* the conversations whose records process_conversation returned and
\* process_batch took in this run
Embedded == {c \in (saved \ skipped) \ embedFailed : source[c] > 0}

\* objects of record r added to the index by this run
WrittenInRun(r) == index[r] - startIndex[r]

C38_ConversationAtomic ==
    \A c \in embedFailed :
        /\ \A n \in 1..Len(insert_buffer) : insert_buffer[n][1] # c
        /\ \A k \in 1..MaxChunks : WrittenInRun(<<c, k>>) = 0

\* a conversation failed after a sub-batch of it had been embedded, its
\* result was taken, and the run went on to write another conversation
C38_Witness ==
    \E c \in embedFailed :
        /\ partial[c] > 0
        /\ c \in processed_ids
        /\ \E d \in Embedded : WrittenInRun(<<d, 1>>) = 1

\* the steps the program itself can take: everything but Ctrl-C, a cursor
\* error and a new start of the script
ProgramStep ==
    \/ LoadCheckpoint
    \/ CursorSkipProcessed
    \/ CursorSkipExisting
    \/ CursorAppend
    \/ CursorEnd
    \/ \E c \in ConvIds : StartConversation(c)
    \/ \E c \in ConvIds : ConversationEmbedsSubBatch(c)
    \/ \E c \in ConvIds : ConversationReturns(c)
    \/ \E c \in ConvIds : ConversationEmbedFails(c)
    \/ \E c \in ConvIds : ConversationRaises(c)
    \/ \E c \in ConvIds, insertFails \in BOOLEAN : HandleResult(c, insertFails)
    \/ \E c \in ConvIds : HandleException(c)
    \/ BatchReturn
    \/ \E insertFails \in BOOLEAN : FinalCommit(insertFails)
    \/ FlushOnCompletion
    \/ FlushOnInterrupt
    \/ FlushOnError

\* C15: a per-conversation timeout is enforced: if a worker's embedding call
\* hangs, the conversation is abandoned after the timeout and counted as a
\* failure, and the run still processes the remaining conversations and
\* terminates. While a call hangs the program therefore always has a step
\* left to take: another conversation's, or the one that abandons the call.
C15_TimeoutEnforced ==
    (\E c \in ConvIds : fut[c] = "hung") => ENABLED ProgramStep

(***************************************************************************)
(* The text of one turn. A text is a sequence of units; the units are the  *)
(* strings the detectors of the two programs tell apart:                   *)
(*   "Hello"/"hello"        an ordinary word                               *)
(*   "Um"/"um"              a filler word (FILLER_WORDS)                   *)
(*   "Dr Smith"/"dr smith"  a titled name: remove_pii's pattern (line 148  *)
(*                          of migrate_transcriptions.py) is case          *)
(*                          sensitive and matches the first only           *)
(*   "123-45-6789"          a social security number                       *)
(*   "123-45#-6789"         the same with a special character inside, which *)
(*                          no pattern of remove_pii matches               *)
(*   "http://a.b"           a URL                                          *)
(*   "[NAME]", "[SSN]", "[REDACTED_SSN]" and their lower-case forms        *)
(***************************************************************************)
MaxTextLen == 2

Units == {"Hello", "hello", "Um", "um", "Dr Smith", "dr smith", "123-45-6789",
          "123-45#-6789", "http://a.b", "[NAME]", "[name]", "[SSN]", "[ssn]",
          "[REDACTED_SSN]", "[redacted_ssn]"}

Texts == UNION {[1..n -> Units] : n \in 0..MaxTextLen}

MapText(f(_), text) == [i \in 1..Len(text) |-> f(text[i])]

RECURSIVE DropUnits(_, _)
DropUnits(text, drop) ==
    IF text = <<>> THEN <<>>
    ELSE IF Head(text) \in drop THEN DropUnits(Tail(text), drop)
    ELSE <<Head(text)>> \o DropUnits(Tail(text), drop)

RECURSIVE Count(_, _)
Count(text, u) ==
    IF text = <<>> THEN 0
    ELSE (IF Head(text) = u THEN 1 ELSE 0) + Count(Tail(text), u)

\* str.lower()
lower_unit(u) ==
    CASE u = "Hello" -> "hello"
      [] u = "Um" -> "um"
      [] u = "Dr Smith" -> "dr smith"
      [] u = "[NAME]" -> "[name]"
      [] u = "[SSN]" -> "[ssn]"
      [] u = "[REDACTED_SSN]" -> "[redacted_ssn]"
      [] OTHER -> u

lower(text) == MapText(lower_unit, text)

\* remove_pii (migrate_transcriptions.py:102-157): the SSN pattern (line
\* 128) and the titled-name pattern (line 148, no IGNORECASE)
remove_pii_unit(u) ==
    CASE u = "123-45-6789" -> "[SSN]"
      [] u = "Dr Smith" -> "[NAME]"
      [] OTHER -> u

remove_pii(text) == MapText(remove_pii_unit, text)

\* step 6 of preprocess_text_for_embedding (line 190): the characters
\* outside the kept class, "#" among them, are deleted
normalize_unit(u) == IF u = "123-45#-6789" THEN "123-45-6789" ELSE u

\* steps 3-6 and strip() of preprocess_text_for_embedding (lines 180-192):
\* URLs are removed, whitespace and punctuation normalised
normalize(text) == MapText(normalize_unit, DropUnits(text, {"http://a.b"}))

\* preprocess_text_for_embedding (migrate_transcriptions.py:160-192)
preprocess_text_for_embedding(text) ==
    IF text = <<>> THEN <<>> ELSE normalize(lower(remove_pii(text)))

\* re.subn of embeddings.py:374, IGNORECASE
redact_unit(u) == IF u = "123-45-6789" THEN "[REDACTED_SSN]" ELSE u

\* preprocess_text (embeddings.py:365-431)
preprocess_text(text) ==
    LET t1 == IF REMOVE_HIPAA_KEYWORDS THEN MapText(redact_unit, text) ELSE text
        t2 == IF REMOVE_FILLER_WORDS THEN DropUnits(t1, {"Um", "um"}) ELSE t1
    IN t2

InitPII ==
    /\ REMOVE_HIPAA_KEYWORDS \in BOOLEAN
    /\ REMOVE_FILLER_WORDS \in BOOLEAN
    /\ raw_text \in Texts
    /\ document = raw_text
    /\ migrated = FALSE
    /\ stage = "stored"
    /\ api_text = <<>>

\* the run component at rest
IdleRun ==
    /\ CHECK_EXISTING = TRUE
    /\ source = [c \in ConvIds |-> 0]
    /\ ckFile = <<>>
    /\ index = [r \in Records |-> 0]
    /\ pc = "idle"
    /\ run = 0
    /\ pos = 0
    /\ conversations_batch = <<>>
    /\ fut = [c \in ConvIds |-> "none"]
    /\ partial = [c \in ConvIds |-> 0]
    /\ processed_ids = {}
    /\ ckBuffer = <<>>
    /\ insert_buffer = <<>>
    /\ endKind = "idle"
    /\ startCk = {}
    /\ startIndex = [r \in Records |-> 0]
    /\ saved = {}
    /\ skipped = {}
    /\ embedFailed = {}
    /\ submitted = {}
    /\ insertFailed = FALSE

\* transform_transcription (migrate_transcriptions.py:485-529) for the turn:
\* the sanitized text is stored as the message, or the turn is filtered out
Migrate ==
    /\ stage = "stored"
    /\ ~migrated
    /\ document' = preprocess_text_for_embedding(document)
    /\ migrated' = TRUE
    /\ stage' = IF document' = <<>> THEN "filtered" ELSE "stored"
    /\ UNCHANGED <<REMOVE_HIPAA_KEYWORDS, REMOVE_FILLER_WORDS, raw_text, api_text, runVars, rlVars,
                   apiVars, ctxVars, fnVars>>

\* process_conversation (embeddings.py:620-634): the preprocessed turn is
\* empty and is skipped
IngestSkip ==
    /\ stage = "stored"
    /\ preprocess_text(document) = <<>>
    /\ stage' = "skipped"
    /\ UNCHANGED <<REMOVE_HIPAA_KEYWORDS, REMOVE_FILLER_WORDS, raw_text, document,
                   migrated, api_text, runVars, rlVars, apiVars, ctxVars, fnVars>>

\* process_conversation (embeddings.py:620-716): the preprocessed turn is
\* part of the text handed to get_batch_embeddings
IngestEmbed ==
    /\ stage = "stored"
    /\ preprocess_text(document) # <<>>
    /\ api_text' = preprocess_text(document)
    /\ stage' = "embedded"
    /\ UNCHANGED <<REMOVE_HIPAA_KEYWORDS, REMOVE_FILLER_WORDS, raw_text, document,
                   migrated, runVars, rlVars, apiVars, ctxVars, fnVars>>

NextPII ==
    \/ Migrate
    \/ IngestSkip
    \/ IngestEmbed

InitSpecPII == InitPII /\ IdleRun /\ IdleRL /\ IdleAPI /\ IdleCtx /\ IdleFn

SpecPII == InitSpecPII /\ [][NextPII]_vars

(***************************************************************************)
(* Claims about the text path (specification SpecPII).                     *)
(***************************************************************************)

\* C7: PII removal precedes both case-folding and any external call: in
\* the sanitizer the redaction runs before lower-casing, so a name that is
\* detectable in its original casing never comes out lower-cased and
\* undetected; and every text handed to the embedding API has passed the
\* PII-redaction step, whatever the configuration flags, so it holds no
\* social security number.
C7_RedactionBeforeFoldingAndCall ==
    /\ migrated =>
          /\ Count(document, "123-45-6789") = 0
          /\ Count(document, "Dr Smith") = 0
          /\ Count(document, "dr smith") <= Count(raw_text, "dr smith")
    /\ stage = "embedded" => Count(api_text, "123-45-6789") = 0

(***************************************************************************)
(* RateLimitState (embeddings.py:281-306).                                 *)
(***************************************************************************)
GROW_AFTER == 10                 \* embeddings.py:301
MaxHits == 3                     \* rate-limit calls considered
MaxStreak == 11                  \* successes in a row considered

\* the settings of lines 40 and 45 considered, <<MIN_BATCH_SIZE,
\* MAX_BATCH_SIZE>> with MIN_BATCH_SIZE <= MAX_BATCH_SIZE: a range whose
\* sizes include odd ones and ones whose half is below the floor, a floor
\* of 1 (where growing by half rounds back down to 1), and a floor equal to
\* the ceiling
BatchLimits == {<<2, 10>>, <<1, 4>>, <<3, 3>>}

Max(a, b) == IF a >= b THEN a ELSE b
Min(a, b) == IF a <= b THEN a ELSE b

\* halving without the floor
halve_unfloored(b) == b \div 2

\* halving that rounds up
halve_round_up(b) == Max(MIN_BATCH_SIZE, (b + 1) \div 2)

\* line 293: max(MIN_BATCH_SIZE, self.current_batch_size // 2)
halve(b) == Max(MIN_BATCH_SIZE, b \div 2)

\* growth without the ceiling
grow_uncapped(b) == (3 * b) \div 2

\* line 304: min(MAX_BATCH_SIZE, int(self.current_batch_size * 1.5))
grow(b) == Min(MAX_BATCH_SIZE, (3 * b) \div 2)

\* on_rate_limit (lines 288-295) as one call
on_rate_limit(st) ==
    [current_batch_size |->
         IF ADAPTIVE_BATCH_SIZING /\ st.current_batch_size > MIN_BATCH_SIZE
         THEN halve(st.current_batch_size)
         ELSE st.current_batch_size,
     rate_limit_hits |-> st.rate_limit_hits + 1,
     consecutive_successes |-> 0]

\* on_success (lines 297-306) as one call
on_success(st) ==
    LET n == st.consecutive_successes + 1
    IN IF ADAPTIVE_BATCH_SIZING /\ n >= GROW_AFTER
       THEN [current_batch_size |->
                 IF st.current_batch_size < MAX_BATCH_SIZE
                 THEN grow(st.current_batch_size)
                 ELSE st.current_batch_size,
             rate_limit_hits |-> st.rate_limit_hits,
             consecutive_successes |-> 0]
       ELSE [st EXCEPT !.consecutive_successes = n]

\* RateLimitState.__init__ (lines 282-286) under one of the configurations
InitRL ==
    /\ ADAPTIVE_BATCH_SIZING \in BOOLEAN
    /\ \E lim \in BatchLimits :
          /\ MIN_BATCH_SIZE = lim[1]
          /\ MAX_BATCH_SIZE = lim[2]
    /\ rate_limit_state = [current_batch_size |-> MAX_BATCH_SIZE,
                           rate_limit_hits |-> 0,
                           consecutive_successes |-> 0]
    /\ wpc = [t \in Workers |-> "idle"]
    /\ wtmp = [t \in Workers |-> 0]
    /\ lastCall = [op |-> "none", old |-> rate_limit_state]
    /\ hitCalls = 0

rlConfig == <<ADAPTIVE_BATCH_SIZING, MIN_BATCH_SIZE, MAX_BATCH_SIZE>>

(***************************************************************************)
(* One caller: every call runs to its end before the next starts.          *)
(***************************************************************************)
CallOnRateLimit ==
    /\ rate_limit_state.rate_limit_hits < MaxHits
    /\ rate_limit_state' = on_rate_limit(rate_limit_state)
    /\ lastCall' = [op |-> "on_rate_limit", old |-> rate_limit_state]
    /\ hitCalls' = hitCalls + 1
    /\ UNCHANGED <<rlConfig, wpc, wtmp, runVars, piiVars, apiVars, ctxVars, fnVars>>

CallOnSuccess ==
    /\ rate_limit_state.consecutive_successes < MaxStreak
    /\ rate_limit_state' = on_success(rate_limit_state)
    /\ lastCall' = [op |-> "on_success", old |-> rate_limit_state]
    /\ UNCHANGED <<rlConfig, wpc, wtmp, hitCalls, runVars, piiVars, apiVars,
                   ctxVars, fnVars>>

NextRLSeq ==
    \/ CallOnRateLimit
    \/ CallOnSuccess

InitSpecRL == InitRL /\ IdleRun /\ IdlePII /\ IdleAPI /\ IdleCtx /\ IdleFn

SpecRLSeq == InitSpecRL /\ [][NextRLSeq]_vars

\* the same caller, which goes on calling the API as long as chunks are
\* left: a response that can be a success is not put off for ever
SpecRecovery == InitSpecRL /\ [][NextRLSeq]_vars /\ WF_vars(CallOnSuccess)

(***************************************************************************)
(* Claims about RateLimitState under one caller (specification SpecRLSeq). *)
(***************************************************************************)

\* C8 (as claimed): after on_rate_limit, for every batch size old, the
\* batch size is max(floor, old // 2) and the success streak is 0.
C8_HalvedAlways ==
    lastCall.op = "on_rate_limit" =>
        /\ rate_limit_state.current_batch_size =
               Max(MIN_BATCH_SIZE, lastCall.old.current_batch_size \div 2)
        /\ rate_limit_state.consecutive_successes = 0

\* C8 (amended): after on_rate_limit the success streak is 0; with
\* ADAPTIVE_BATCH_SIZING enabled the batch size is max(floor, old // 2) for
\* every batch size old >= floor, and with it disabled the batch size is
\* unchanged.
C8_HalvedWhenAdaptive ==
    lastCall.op = "on_rate_limit" =>
        /\ rate_limit_state.consecutive_successes = 0
        /\ rate_limit_state.rate_limit_hits = lastCall.old.rate_limit_hits + 1
        /\ rate_limit_state.current_batch_size =
               IF ADAPTIVE_BATCH_SIZING
                  /\ lastCall.old.current_batch_size >= MIN_BATCH_SIZE
               THEN Max(MIN_BATCH_SIZE, lastCall.old.current_batch_size \div 2)
               ELSE lastCall.old.current_batch_size

C8_Witness ==
    /\ lastCall.op = "on_rate_limit"
    /\ ADAPTIVE_BATCH_SIZING
    /\ lastCall.old.current_batch_size > MIN_BATCH_SIZE
    /\ lastCall.old.current_batch_size % 2 = 1
    /\ lastCall.old.current_batch_size \div 2 < MIN_BATCH_SIZE
    /\ lastCall.old.consecutive_successes > 0

\* C9 (as claimed): the 10th consecutive success sets the batch size to
\* min(ceiling, old * 1.5) rounded down and resets the streak to 0; any
\* other on_success leaves the batch size unchanged.
C9_GrowsAlways ==
    lastCall.op = "on_success" =>
        IF lastCall.old.consecutive_successes + 1 >= GROW_AFTER
        THEN /\ rate_limit_state.current_batch_size =
                    Min(MAX_BATCH_SIZE, (3 * lastCall.old.current_batch_size) \div 2)
             /\ rate_limit_state.consecutive_successes = 0
        ELSE /\ rate_limit_state.current_batch_size =
                    lastCall.old.current_batch_size
             /\ rate_limit_state.consecutive_successes =
                    lastCall.old.consecutive_successes + 1

\* C9 (amended): with ADAPTIVE_BATCH_SIZING enabled, the 10th consecutive
\* success sets the batch size to min(ceiling, old * 1.5) rounded down and
\* resets the streak to 0, and any other on_success leaves the batch size
\* unchanged and adds one to the streak; with it disabled on_success only
\* adds one to the streak, which is never reset by a success.
C9_GrowsWhenAdaptive ==
    lastCall.op = "on_success" =>
        IF ADAPTIVE_BATCH_SIZING
           /\ lastCall.old.consecutive_successes + 1 >= GROW_AFTER
        THEN /\ rate_limit_state.current_batch_size =
                    Min(MAX_BATCH_SIZE, (3 * lastCall.old.current_batch_size) \div 2)
             /\ rate_limit_state.consecutive_successes = 0
        ELSE /\ rate_limit_state.current_batch_size =
                    lastCall.old.current_batch_size
             /\ rate_limit_state.consecutive_successes =
                    lastCall.old.consecutive_successes + 1

C9_Witness ==
    /\ lastCall.op = "on_success"
    /\ ADAPTIVE_BATCH_SIZING
    /\ lastCall.old.consecutive_successes = GROW_AFTER - 1
    /\ lastCall.old.current_batch_size < MAX_BATCH_SIZE
    /\ (3 * lastCall.old.current_batch_size) \div 2 > MAX_BATCH_SIZE
    /\ rate_limit_state.current_batch_size = MAX_BATCH_SIZE

\* C37: batch-size recovery: from any reachable batch size, if every
\* subsequent embedding call succeeds, the batch size eventually returns to
\* MAX_BATCH_SIZE, for every configured floor MIN_BATCH_SIZE >= 1. Once
\* the rate limits considered are used up every further call is a success.
C37_Recovery ==
    (rate_limit_state.rate_limit_hits = MaxHits)
        ~> (rate_limit_state.current_batch_size = MAX_BATCH_SIZE)

(***************************************************************************)
(* MAX_WORKERS threads share rate_limit_state without a lock               *)
(* (process_conversation calls get_batch_embeddings from the pool): every  *)
(* read and every write of a field is a step of its own.  wtmp[t] is the   *)
(* value thread t has read and not yet written back.                       *)
(***************************************************************************)
rlFrame == <<rlConfig, lastCall, runVars, piiVars, apiVars, ctxVars, fnVars>>

Goto(t, label, tmp) ==
    /\ wpc' = [wpc EXCEPT ![t] = label]
    /\ wtmp' = [wtmp EXCEPT ![t] = tmp]

\* line 290, read of self.rate_limit_hits
RL_ReadHits(t) ==
    /\ wpc[t] = "idle"
    /\ rate_limit_state.rate_limit_hits < MaxHits
    /\ Goto(t, "rl_write_hits", rate_limit_state.rate_limit_hits)
    /\ UNCHANGED <<rate_limit_state, hitCalls, rlFrame>>

\* line 290, write of self.rate_limit_hits
RL_WriteHits(t) ==
    /\ wpc[t] = "rl_write_hits"
    /\ rate_limit_state' =
           [rate_limit_state EXCEPT !.rate_limit_hits = wtmp[t] + 1]
    /\ Goto(t, "rl_test", 0)
    /\ hitCalls' = hitCalls + 1
    /\ UNCHANGED rlFrame

\* line 291
RL_Test(t) ==
    /\ wpc[t] = "rl_test"
    /\ IF ADAPTIVE_BATCH_SIZING
          /\ rate_limit_state.current_batch_size > MIN_BATCH_SIZE
       THEN Goto(t, "rl_read_size", 0)
       ELSE Goto(t, "rl_reset", 0)
    /\ UNCHANGED <<rate_limit_state, hitCalls, rlFrame>>

\* line 293, read of self.current_batch_size
RL_ReadSize(t) ==
    /\ wpc[t] = "rl_read_size"
    /\ Goto(t, "rl_write_size", rate_limit_state.current_batch_size)
    /\ UNCHANGED <<rate_limit_state, hitCalls, rlFrame>>

\* line 293, write of self.current_batch_size
RL_WriteSize(t) ==
    /\ wpc[t] = "rl_write_size"
    /\ rate_limit_state' =
           [rate_limit_state EXCEPT !.current_batch_size = halve(wtmp[t])]
    /\ Goto(t, "rl_reset", 0)
    /\ UNCHANGED <<hitCalls, rlFrame>>

\* line 295
RL_Reset(t) ==
    /\ wpc[t] = "rl_reset"
    /\ rate_limit_state' =
           [rate_limit_state EXCEPT !.consecutive_successes = 0]
    /\ Goto(t, "idle", 0)
    /\ UNCHANGED <<hitCalls, rlFrame>>

\* line 299, read of self.consecutive_successes
S_ReadStreak(t) ==
    /\ wpc[t] = "idle"
    /\ rate_limit_state.consecutive_successes < MaxStreak
    /\ Goto(t, "s_write_streak", rate_limit_state.consecutive_successes)
    /\ UNCHANGED <<rate_limit_state, hitCalls, rlFrame>>

\* line 299, write of self.consecutive_successes
S_WriteStreak(t) ==
    /\ wpc[t] = "s_write_streak"
    /\ rate_limit_state' =
           [rate_limit_state EXCEPT !.consecutive_successes = wtmp[t] + 1]
    /\ Goto(t, "s_test", 0)
    /\ UNCHANGED <<hitCalls, rlFrame>>

\* line 301
S_Test(t) ==
    /\ wpc[t] = "s_test"
    /\ IF ADAPTIVE_BATCH_SIZING
          /\ rate_limit_state.consecutive_successes >= GROW_AFTER
       THEN Goto(t, "s_test_size", 0)
       ELSE Goto(t, "idle", 0)
    /\ UNCHANGED <<rate_limit_state, hitCalls, rlFrame>>

\* line 302
S_TestSize(t) ==
    /\ wpc[t] = "s_test_size"
    /\ IF rate_limit_state.current_batch_size < MAX_BATCH_SIZE
       THEN Goto(t, "s_read_size", 0)
       ELSE Goto(t, "s_reset", 0)
    /\ UNCHANGED <<rate_limit_state, hitCalls, rlFrame>>

\* line 304, read of self.current_batch_size
S_ReadSize(t) ==
    /\ wpc[t] = "s_read_size"
    /\ Goto(t, "s_write_size", rate_limit_state.current_batch_size)
    /\ UNCHANGED <<rate_limit_state, hitCalls, rlFrame>>

\* line 304, write of self.current_batch_size
S_WriteSize(t) ==
    /\ wpc[t] = "s_write_size"
    /\ rate_limit_state' =
           [rate_limit_state EXCEPT !.current_batch_size = grow(wtmp[t])]
    /\ Goto(t, "s_reset", 0)
    /\ UNCHANGED <<hitCalls, rlFrame>>

\* line 306
S_Reset(t) ==
    /\ wpc[t] = "s_reset"
    /\ rate_limit_state' =
           [rate_limit_state EXCEPT !.consecutive_successes = 0]
    /\ Goto(t, "idle", 0)
    /\ UNCHANGED <<hitCalls, rlFrame>>

NextRL ==
    \E t \in Workers :
        \/ RL_ReadHits(t)
        \/ RL_WriteHits(t)
        \/ RL_Test(t)
        \/ RL_ReadSize(t)
        \/ RL_WriteSize(t)
        \/ RL_Reset(t)
        \/ S_ReadStreak(t)
        \/ S_WriteStreak(t)
        \/ S_Test(t)
        \/ S_TestSize(t)
        \/ S_ReadSize(t)
        \/ S_WriteSize(t)
        \/ S_Reset(t)

InitSpecRLThreads == InitRL /\ IdleRun /\ IdlePII /\ IdleAPI /\ IdleCtx /\ IdleFn

SpecRL == InitSpecRLThreads /\ [][NextRL]_vars

(***************************************************************************)
(* Claim about RateLimitState under the worker pool (specification SpecRL).*)
(***************************************************************************)

\* C10: in every reachable state, after any sequence and any interleaving
\* of on_success and on_rate_limit calls by the worker threads,
\* MIN_BATCH_SIZE <= current_batch_size <= MAX_BATCH_SIZE, starting from
\* current_batch_size = MAX_BATCH_SIZE.
C10_BatchSizeInRange ==
    /\ MIN_BATCH_SIZE <= rate_limit_state.current_batch_size
    /\ rate_limit_state.current_batch_size <= MAX_BATCH_SIZE

\* one thread is about to write a halved size and another a grown size,
\* both computed from reads that the other's write makes stale
C10_Witness ==
    /\ \E t, u \in Workers :
          /\ wpc[t] = "rl_write_size"
          /\ wpc[u] = "s_write_size"
          /\ halve(wtmp[t]) < rate_limit_state.current_batch_size
          /\ grow(wtmp[u]) > rate_limit_state.current_batch_size
    /\ MIN_BATCH_SIZE < rate_limit_state.current_batch_size
    /\ rate_limit_state.current_batch_size < MAX_BATCH_SIZE

\* C13: the shared rate-limit state is safe under concurrent workers: the
\* state left by concurrent calls equals that of some sequential order of
\* the same calls. In every sequential order each on_rate_limit call adds
\* one to rate_limit_hits, so once no call is in progress rate_limit_hits is
\* the number of on_rate_limit calls made.
C13_NoLostUpdate ==
    (\A t \in Workers : wpc[t] = "idle") =>
        rate_limit_state.rate_limit_hits = hitCalls

(***************************************************************************)
(* get_batch_embeddings (embeddings.py:475-526) and                        *)
(* RateLimitState.wait_if_needed (308-314), run by the worker threads.     *)
(* Time is counted in ticks; a sleep ends at or after its deadline and an  *)
(* API call takes any number of ticks.                                     *)
(***************************************************************************)
MAX_RETRIES == 2          \* embeddings.py:80 (default 3), scaled down
RETRY_DELAY == 2          \* embeddings.py:81 (default 5 s), in ticks
INTER_BATCH_DELAY == 2    \* embeddings.py:43 (default 0.5 s), in ticks
MaxTime == 6              \* ticks considered
MaxBatches == 2           \* sub-batches a thread embeds
MaxRetryAfter == 1        \* longest "try again in" hint of the API, in ticks

Outcomes == {"ok", "rate_limit", "error"}

RECURSIVE Pow2(_)
Pow2(n) == IF n = 0 THEN 1 ELSE 2 * Pow2(n - 1)

\* a retry test that allows one retry more
may_retry_once_more(rc) == rc <= MAX_RETRIES

\* line 493: if retry_count < MAX_RETRIES
may_retry(rc) == rc < MAX_RETRIES

\* lines 500-520: the times time.sleep may be asked to wait. A parsed
\* "try again in" hint is stretched by 20 %; a hint of h ticks gives a wait
\* of at least h.
wait_times(outcome, rc) ==
    IF outcome = "rate_limit"
    THEN (1..MaxRetryAfter) \cup {RETRY_DELAY * Pow2(rc)}
    ELSE {RETRY_DELAY * (rc + 1)}

InitAPI ==
    /\ now = INTER_BATCH_DELAY
    /\ last_request_time = 0
    /\ apc = [t \in Workers |-> "idle"]
    /\ retry_count = [t \in Workers |-> 0]
    /\ wake = [t \in Workers |-> 0]
    /\ batchNo = [t \in Workers |-> 0]
    /\ attempts = [t \in Workers |-> 0]
    /\ lastEnd = 0
    /\ lastGap = INTER_BATCH_DELAY
    /\ response = [t \in Workers |-> "none"]

otherFrame == <<rlConfig, wpc, wtmp, lastCall, hitCalls, runVars, piiVars, ctxVars, fnVars>>

apiFrame == <<otherFrame, response>>

\* process_conversation, line 716: get_batch_embeddings(batch_chunks)
GBE_Enter(t) ==
    /\ apc[t] \in {"idle", "returned"}
    /\ batchNo[t] < MaxBatches
    /\ batchNo' = [batchNo EXCEPT ![t] = @ + 1]
    /\ apc' = [apc EXCEPT ![t] = "wait"]
    /\ retry_count' = [retry_count EXCEPT ![t] = 0]
    /\ attempts' = [attempts EXCEPT ![t] = 0]
    /\ UNCHANGED <<now, last_request_time, wake, lastEnd, lastGap,
                   rate_limit_state, apiFrame>>

\* wait_if_needed, lines 310-313: sleep for what is left of the delay
W_Check(t) ==
    /\ apc[t] = "wait"
    /\ LET elapsed == now - last_request_time
       IN IF INTER_BATCH_DELAY > 0 /\ elapsed < INTER_BATCH_DELAY
          THEN /\ wake' = [wake EXCEPT ![t] = now + (INTER_BATCH_DELAY - elapsed)]
               /\ apc' = [apc EXCEPT ![t] = "sleep"]
          ELSE /\ apc' = [apc EXCEPT ![t] = "stamp"]
               /\ UNCHANGED wake
    /\ UNCHANGED <<now, last_request_time, retry_count, batchNo, attempts,
                   lastEnd, lastGap, rate_limit_state, apiFrame>>

\* line 313: time.sleep returns
W_Slept(t) ==
    /\ apc[t] = "sleep"
    /\ now >= wake[t]
    /\ wake' = [wake EXCEPT ![t] = 0]
    /\ apc' = [apc EXCEPT ![t] = "stamp"]
    /\ UNCHANGED <<now, last_request_time, retry_count, batchNo, attempts,
                   lastEnd, lastGap, rate_limit_state, apiFrame>>

\* line 314: self.last_request_time = time.time()
W_Stamp(t) ==
    /\ apc[t] = "stamp"
    /\ last_request_time' = now
    /\ apc' = [apc EXCEPT ![t] = "request"]
    /\ UNCHANGED <<now, retry_count, wake, batchNo, attempts, lastEnd, lastGap,
                   rate_limit_state, apiFrame>>

\* lines 481-486: the request is sent
API_Start(t) ==
    /\ apc[t] = "request"
    /\ apc' = [apc EXCEPT ![t] = "calling"]
    /\ attempts' = [attempts EXCEPT ![t] = @ + 1]
    /\ lastGap' = IF \E u \in Workers : apc[u] = "calling"
                  THEN 0     \* the call before it has not even ended
                  ELSE IF lastEnd = 0 THEN INTER_BATCH_DELAY   \* the first call
                  ELSE Min(now - lastEnd, INTER_BATCH_DELAY)
    /\ response' = [response EXCEPT ![t] = "none"]
    /\ UNCHANGED <<now, last_request_time, retry_count, wake, batchNo, lastEnd,
                   rate_limit_state, otherFrame>>

\* lines 488-489: the response arrives; lines 491-526: the call raises
API_End(t, outcome) ==
    /\ apc[t] = "calling"
    /\ lastEnd' = now
    /\ response' = [response EXCEPT ![t] = outcome]
    /\ IF outcome = "ok"
       THEN /\ rate_limit_state' = on_success(rate_limit_state)
            /\ apc' = [apc EXCEPT ![t] = "returned"]
            /\ UNCHANGED wake
       ELSE IF may_retry(retry_count[t])
       THEN /\ rate_limit_state' = IF outcome = "rate_limit"
                                   THEN on_rate_limit(rate_limit_state)
                                   ELSE rate_limit_state
            /\ \E wait_time \in wait_times(outcome, retry_count[t]) :
                   wake' = [wake EXCEPT ![t] = now + wait_time]
            /\ apc' = [apc EXCEPT ![t] = "backoff"]
       ELSE /\ apc' = [apc EXCEPT ![t] = "raised"]
            /\ UNCHANGED <<rate_limit_state, wake>>
    /\ UNCHANGED <<now, last_request_time, retry_count, batchNo, attempts,
                   lastGap, otherFrame>>

\* lines 522-523: time.sleep(wait_time) returns and the function calls itself
Backoff_Slept(t) ==
    /\ apc[t] = "backoff"
    /\ now >= wake[t]
    /\ retry_count' = [retry_count EXCEPT ![t] = @ + 1]
    /\ wake' = [wake EXCEPT ![t] = 0]
    /\ apc' = [apc EXCEPT ![t] = "wait"]
    /\ UNCHANGED <<now, last_request_time, batchNo, attempts, lastEnd,
                   lastGap, rate_limit_state, apiFrame>>

\* the clock advances
Tick ==
    /\ now < MaxTime
    /\ now' = now + 1
    /\ UNCHANGED <<last_request_time, apc, retry_count, wake, batchNo, attempts,
                   lastEnd, lastGap, rate_limit_state, apiFrame>>

NextAPI ==
    \/ \E t \in Workers : GBE_Enter(t)
    \/ \E t \in Workers : W_Check(t)
    \/ \E t \in Workers : W_Slept(t)
    \/ \E t \in Workers : W_Stamp(t)
    \/ \E t \in Workers : API_Start(t)
    \/ \E t \in Workers, outcome \in Outcomes : API_End(t, outcome)
    \/ \E t \in Workers : Backoff_Slept(t)
    \/ Tick

\* the rate-limit state as constructed under the first of the settings
InitRLFirst ==
    /\ InitRL
    /\ ADAPTIVE_BATCH_SIZING
    /\ <<MIN_BATCH_SIZE, MAX_BATCH_SIZE>> = <<2, 10>>

InitSpecAPI == InitAPI /\ InitRLFirst /\ IdleRun /\ IdlePII /\ IdleCtx /\ IdleFn

SpecAPI == InitSpecAPI /\ [][NextAPI]_vars

(***************************************************************************)
(* Claims about the embedding client (specification SpecAPI).              *)
(***************************************************************************)

\* C11: get_batch_embeddings makes, for one batch, at most MAX_RETRIES
\* retries after the first attempt, and then either returns the embeddings
\* of a successful attempt or raises to its caller: it raises only when the
\* attempt after the last permitted retry has failed, and it sleeps before
\* a further attempt only while a retry remains, so never retries beyond
\* the cap. (Every attempt adds one to a count that the cap bounds,
\* so the call ends once its API calls and sleeps do.)
C11_RetriesCapped ==
    \A t \in Workers :
        /\ retry_count[t] <= MAX_RETRIES
        /\ attempts[t] <= MAX_RETRIES + 1
        /\ apc[t] \in {"calling", "backoff", "returned", "raised"} =>
               attempts[t] = retry_count[t] + 1
        /\ apc[t] = "raised" => attempts[t] = MAX_RETRIES + 1
        /\ apc[t] = "backoff" => retry_count[t] < MAX_RETRIES

C11_Witness ==
    \E t, u \in Workers :
        /\ apc[t] = "raised"
        /\ apc[u] = "returned"
        /\ attempts[u] = MAX_RETRIES + 1

\* C12: for any two consecutive embedding API calls, issued by the same or
\* by different worker threads and including retries, the later call starts
\* at least INTER_BATCH_DELAY after the end of the earlier call.
C12_InterCallDelay == lastGap >= INTER_BATCH_DELAY

\* C28: every rate-limit response received by get_batch_embeddings, on any
\* attempt, the one that exhausts the retries included, halves the batch
\* size (not below the floor) and resets the success streak; when a retry
\* follows, the halving is done when the wait begins, and the retry's
\* request is sent only after the wait.
C28_RateLimitHalves ==
    [][\A t \in Workers :
          /\ (apc[t] = "calling" /\ apc'[t] # "calling" /\ response'[t] = "rate_limit")
                => /\ rate_limit_state'.current_batch_size =
                         Max(MIN_BATCH_SIZE, rate_limit_state.current_batch_size \div 2)
                   /\ rate_limit_state'.consecutive_successes = 0
          /\ (apc[t] = "backoff" /\ apc'[t] # "backoff") => now >= wake[t]
      ]_vars

(***************************************************************************)
(* TherapistContextManager.build_context                                   *)
(* (therapist_context_manager.py:335-457). The budget arithmetic sees a    *)
(* text only through len(text.split()), so a text is modelled by its       *)
(* number of words:                                                        *)
(*   a message   [sender_type, words]   words of its content               *)
(*   a summary   [topics]               number of inferred topics          *)
(*   a chunk     [owner, words, distance]     the user whose conversation  *)
(*               it comes from, the words in the first 200 characters of   *)
(*               its text, and its distance to the query in hundredths     *)
(***************************************************************************)
MaxTurns == 3             \* turns of a live session
SIMILARITY_THRESHOLD == 70    \* similarity_threshold=0.7, in percent
SEARCH_LIMIT == 5             \* limit=5 of the similarity search
HISTORY_LIMIT == 4            \* limit=4 of the history fetch

Users == {"A", "B"}
Budgets == {1, 3, 10, 24}
ContentWords == {0, 4}
Messages == [sender_type : {"USER", "BOT"}, words : ContentWords]

RECURSIVE SeqsUpTo(_, _)
SeqsUpTo(S, n) ==
    IF n = 0 THEN {<<>>}
    ELSE LET shorter == SeqsUpTo(S, n - 1)
         IN shorter \cup {Append(q, x) : q \in {r \in shorter : Len(r) = n - 1}, x \in S}

Sessions == SeqsUpTo(Messages, MaxTurns)

\* the recent conversations of a user that the relational store holds
Histories == {<<>>, <<[topics |-> 5]>>, <<[topics |-> 5], [topics |-> 0]>>}

\* the nearest chunks the vector index holds for a query, nearest first
ChunkLists ==
    {<<>>,
     <<[owner |-> "B", words |-> 7, distance |-> 20]>>,
     <<[owner |-> "A", words |-> 7, distance |-> 20],
       [owner |-> "B", words |-> 7, distance |-> 30],
       [owner |-> "A", words |-> 20, distance |-> 56],
       [owner |-> "B", words |-> 2, distance |-> 62],
       [owner |-> "A", words |-> 2, distance |-> 100]>>}

RECURSIVE SumSeq(_)
SumSeq(q) == IF q = <<>> THEN 0 ELSE Head(q) + SumSeq(Tail(q))

Prefix(q, n) == SubSeq(q, 1, Min(n, Len(q)))

\* estimate_tokens (lines 85-88): int(words / 1.33)
estimate_tokens(words) == (100 * words) \div 133

\* _format_messages (lines 516-532): one line "[Speaker]: content" per
\* message; the number of words of the text
format_messages(messages) ==
    SumSeq([i \in 1..Len(messages) |-> 1 + messages[i].words])

\* _format_conversation_summaries (lines 534-541): per summary the lines
\* "Date: <date> <time>", "Topics: a, b, ..." and "Messages: <n>"
format_conversation_summaries(summs) ==
    SumSeq([i \in 1..Len(summs) |-> 3 + (1 + summs[i].topics) + 2])

\* _format_similar_conversations (lines 543-548): per result the line
\* "[0.85] <first 200 characters of the chunk>"
format_similar_conversations(similar) ==
    SumSeq([i \in 1..Len(similar) |-> 1 + similar[i].words])

\* _truncate_messages (lines 550-566): from the most recent message back,
\* keep messages while their estimates, added up one by one, fit
truncate_messages(messages, token_budget) ==
    LET RECURSIVE walk(_, _, _)
        walk(i, tokens, truncated) ==
            IF i = 0 THEN truncated
            ELSE LET msg_tokens == estimate_tokens(format_messages(<<messages[i]>>))
                 IN IF tokens + msg_tokens <= token_budget
                    THEN walk(i - 1, tokens + msg_tokens, <<messages[i]>> \o truncated)
                    ELSE truncated
    IN walk(Len(messages), 0, <<>>)

\* line 276: similarity = 1 - (distance / 2), distances in hundredths and
\* similarities in percent
similarity_of_undivided(distance) == 100 - distance

similarity_of(distance) == 100 - distance \div 2

\* lines 279-286: the result built for an object of the index, which carries
\* the object's properties and its similarity in place of its distance
as_result(item) ==
    [f \in (DOMAIN item \ {"distance"}) \cup {"similarity"} |->
        IF f = "similarity" THEN similarity_of(item.distance) ELSE item[f]]

\* results.sort(key=similarity, reverse=True) (line 289), a stable sort
RECURSIVE sort_by_similarity(_)
sort_by_similarity(results) ==
    IF results = <<>> THEN <<>>
    ELSE LET best == CHOOSE i \in 1..Len(results) :
                        /\ \A j \in 1..Len(results) :
                              results[j].similarity <= results[i].similarity
                        /\ \A j \in 1..(i - 1) :
                              results[j].similarity < results[i].similarity
         IN <<results[best]>> \o
            sort_by_similarity(SubSeq(results, 1, best - 1)
                               \o SubSeq(results, best + 1, Len(results)))

\* search_similar_conversations (lines 235-295): the nearest limit * 2
\* objects of the whole index, those at or above the threshold, sorted, the
\* first limit of them; user_id is accepted and not used. Any exception is
\* caught and gives [] (lines 293-295).
search_similar_conversations(near, user_id, limit, similarity_threshold, up) ==
    IF ~up THEN <<>>
    ELSE LET fetched == Prefix(near, limit * 2)
             scored == [i \in 1..Len(fetched) |-> as_result(fetched[i])]
             kept == SelectSeq(scored, LAMBDA item :
                         item.similarity >= similarity_threshold)
         IN Prefix(sort_by_similarity(kept), limit)

\* lines 396-410 and 431-445: the whole list when it fits the tier's
\* budget, else its longest prefix that fits; tokens is the estimate
\* computed last, which is that of the first entry alone when nothing fits
fit_tier(entry_words, tier_budget) ==
    LET all_tokens == estimate_tokens(SumSeq(entry_words))
        fitting == {i \in 1..Len(entry_words) :
                       estimate_tokens(SumSeq(Prefix(entry_words, i))) <= tier_budget}
    IN IF all_tokens <= tier_budget
       THEN [count |-> Len(entry_words), tokens |-> all_tokens, used |-> all_tokens]
       ELSE IF fitting # {}
       THEN LET i == CHOOSE k \in fitting : \A j \in fitting : j <= k
                t == estimate_tokens(SumSeq(Prefix(entry_words, i)))
            IN [count |-> i, tokens |-> t, used |-> t]
       ELSE [count |-> 0,
             tokens |-> estimate_tokens(SumSeq(Prefix(entry_words, 1))),
             used |-> 0]

\* get_recent_conversations (lines 140-190): the user's latest
\* conversations, at most limit of them
get_recent_conversations(store, user_id) == Prefix(store[user_id], HISTORY_LIMIT)

\* lines 417-421: the content of the last USER message, as its length in
\* words; 0 stands for "none found" as well as for an empty content, which
\* the test of line 423 treats alike
last_user_msg(session) ==
    LET users == {i \in 1..Len(session) : session[i].sender_type = "USER"}
    IN IF users = {} THEN 0
       ELSE session[CHOOSE i \in users : \A j \in users : j <= i].words

Raised(error) == [status |-> "raised", error |-> error]

\* build_context (lines 333-459)
build_context(req, store, near, pgUp, weaviateUp) ==
    LET token_budget == req.token_budget
        \* 1. current session, lines 373-385
        current_session_budget == (40 * token_budget) \div 100
        untruncated == estimate_tokens(format_messages(req.current_session))
        current_session == IF untruncated > current_session_budget
                           THEN truncate_messages(req.current_session,
                                                  current_session_budget)
                           ELSE req.current_session
        current_session_tokens == estimate_tokens(format_messages(current_session))
        \* 2. recent history, lines 387-410
        with_history == req.user_id # "none"
        history_budget == (35 * token_budget) \div 100
        recent_convs == get_recent_conversations(store, req.user_id)
        history_tier == fit_tier([i \in 1..Len(recent_convs) |->
                                format_conversation_summaries(<<recent_convs[i]>>)],
                            history_budget)
        \* 3. relevant past context, lines 412-445
        with_similar == req.include_similar /\ current_session # <<>>
        searched == with_similar /\ last_user_msg(current_session) > 0
        similar_budget == (25 * token_budget) \div 100
        similar_convs == search_similar_conversations(near, req.user_id, SEARCH_LIMIT,
                                                      SIMILARITY_THRESHOLD, weaviateUp)
        similar_tier == fit_tier([i \in 1..Len(similar_convs) |->
                                format_similar_conversations(<<similar_convs[i]>>)],
                            similar_budget)
    IN IF with_history /\ ~pgUp
       THEN Raised("get_recent_conversations")     \* line 390, not caught
       ELSE IF token_budget = 0
       THEN Raised("division by zero")             \* line 451
       ELSE IF with_similar /\ ~searched
       THEN Raised("similar_tokens unbound")       \* line 455
       ELSE
       [status |-> "returned",
        current_session |-> current_session,
        recent_history |-> IF with_history
                           THEN Prefix(recent_convs, history_tier.count) ELSE <<>>,
        relevant_past_context |-> IF searched
                                  THEN Prefix(similar_convs, similar_tier.count)
                                  ELSE <<>>,
        token_usage |->
            [total_used |-> current_session_tokens
                            + (IF with_history THEN history_tier.used ELSE 0)
                            + (IF searched THEN similar_tier.used ELSE 0),
             budget |-> token_budget,
             breakdown |->
                 [current_session |-> current_session_tokens,
                  recent_history |-> IF with_history THEN history_tier.tokens ELSE 0,
                  relevant_past |-> IF with_similar THEN similar_tier.tokens ELSE 0]]]

\* a request arrives: its arguments, and the state of the two stores
InitCtx ==
    /\ request \in [current_session : Sessions,
                    user_id : Users \cup {"none"},
                    include_similar : BOOLEAN,
                    token_budget : Budgets]
    /\ pg_up \in BOOLEAN
    /\ weaviate_up \in BOOLEAN
    /\ summaries \in {[u \in Users |-> IF u = "A" THEN h ELSE <<[topics |-> 1]>>] :
                        h \in Histories}
    /\ chunks \in ChunkLists
    /\ context = [status |-> "none"]
    /\ cstage = "request"

\* POST /context/build (context_api.py:103-151) calls build_context
BuildContext ==
    /\ cstage = "request"
    /\ context' = build_context(request, summaries, chunks, pg_up, weaviate_up)
    /\ cstage' = "done"
    /\ UNCHANGED <<request, pg_up, weaviate_up, summaries, chunks,
                   runVars, piiVars, rlVars, apiVars, fnVars>>

NextCtx == BuildContext

InitSpecCtx == InitCtx /\ IdleRun /\ IdlePII /\ IdleRL /\ IdleAPI /\ IdleFn

SpecCtx == InitSpecCtx /\ [][NextCtx]_vars

(***************************************************************************)
(* Claims about build_context (specification SpecCtx).                     *)
(***************************************************************************)

\* C16: context budget invariant: for every session, history set,
\* similarity result set and token budget, the sum of the three tier token
\* costs recorded by build_context (current session + recent history +
\* relevant past) is at most token_budget, and so is the total recorded as
\* used.
C16_BudgetInvariant ==
    (cstage = "done" /\ context.status = "returned") =>
        LET breakdown == context.token_usage.breakdown
        IN /\ breakdown.current_session + breakdown.recent_history
              + breakdown.relevant_past <= request.token_budget
           /\ context.token_usage.total_used <= request.token_budget

\* C17: for every non-empty live session and every positive token budget,
\* the current_session returned by build_context is non-empty.
C17_SessionNeverDropped ==
    (/\ cstage = "done" /\ context.status = "returned"
     /\ request.current_session # <<>>
     /\ request.token_budget > 0)
        => context.current_session # <<>>

\* C19: similarity search is filtered by user: no chunk that belongs only
\* to another user's conversations is returned in relevant_past_context for
\* a request made with user_id = A.
C19_FilteredByUser ==
    (/\ cstage = "done" /\ context.status = "returned"
     /\ request.user_id # "none")
        => \A i \in 1..Len(context.relevant_past_context) :
               context.relevant_past_context[i].owner = request.user_id

\* C20: graceful degradation: if the history fetch or the similarity search
\* fails, build_context still returns a bundle in which the failed tier is
\* empty and the higher-priority tiers are what they would be without the
\* failure. (Stated for the requests that return when both stores answer.)
C20_GracefulDegradation ==
    LET unfailed == build_context(request, summaries, chunks, TRUE, TRUE)
    IN (cstage = "done" /\ unfailed.status = "returned") =>
           /\ context.status = "returned"
           /\ context.current_session = unfailed.current_session
           /\ ~pg_up => context.recent_history = <<>>
           /\ pg_up => context.recent_history = unfailed.recent_history
           /\ ~weaviate_up => context.relevant_past_context = <<>>

\* C32: session truncation keeps the most recent turns: when the live
\* session exceeds its 40% allotment, the current_session returned by
\* build_context is a contiguous suffix of the input session in original
\* order, and its recorded token cost is at most int(0.40 * token_budget).
C32_TruncationKeepsRecent ==
    LET allotment == (40 * request.token_budget) \div 100
        session == request.current_session
    IN (/\ cstage = "done" /\ context.status = "returned"
        /\ estimate_tokens(format_messages(session)) > allotment)
           => /\ \E k \in 0..Len(session) :
                    context.current_session = SubSeq(session, k + 1, Len(session))
              /\ context.token_usage.breakdown.current_session <= allotment

\* C33: the usage breakdown records each tier's actual token cost: in
\* every bundle returned by build_context, each breakdown entry equals the
\* estimated tokens of the content actually included for that tier (0 when
\* the tier is empty), and token_usage.total_used equals the sum of the
\* three breakdown entries.
C33_BreakdownIsActual ==
    (cstage = "done" /\ context.status = "returned") =>
        LET breakdown == context.token_usage.breakdown
        IN /\ breakdown.current_session =
                 estimate_tokens(format_messages(context.current_session))
           /\ breakdown.recent_history =
                 estimate_tokens(format_conversation_summaries(context.recent_history))
           /\ breakdown.relevant_past =
                 estimate_tokens(format_similar_conversations(
                                     context.relevant_past_context))
           /\ context.token_usage.total_used =
                 breakdown.current_session + breakdown.recent_history
                 + breakdown.relevant_past

\* C36: build_context returns a bundle (never raises) for every input
\* session, including an empty session, a session containing no USER-role
\* turn, and a session whose last USER turn has empty content, for every
\* combination of user_id present/absent and include_similar true/false.
\* (Stated for the requests made with a positive token budget while both
\* stores answer.)
C36_AlwaysReturns ==
    (/\ cstage = "done"
     /\ pg_up /\ weaviate_up
     /\ request.token_budget > 0)
        => context.status = "returned"

(***************************************************************************)
(* The scenario of a 3-turn session of 50 estimated tokens under a budget  *)
(* of 100 (specification SpecScenario): every division of the session's    *)
(* words among its three turns.                                            *)
(***************************************************************************)
SCENARIO_BUDGET == 100
SCENARIO_TOKENS == 50
MaxScenarioWords == 70    \* formatted words of a session considered

\* the sessions USER, BOT, USER whose text is estimated at SCENARIO_TOKENS
ScenarioSessions ==
    {<<[sender_type |-> "USER", words |-> w1],
       [sender_type |-> "BOT", words |-> w2],
       [sender_type |-> "USER", words |-> w3]>> :
        <<w1, w2, w3>> \in
            {w \in (0..MaxScenarioWords) \X (0..MaxScenarioWords) \X (0..MaxScenarioWords) :
                 estimate_tokens(w[1] + w[2] + w[3] + 3) = SCENARIO_TOKENS}}

InitScenario ==
    /\ request \in [current_session : ScenarioSessions,
                    user_id : {"A"},
                    include_similar : {TRUE},
                    token_budget : {SCENARIO_BUDGET}]
    /\ pg_up = TRUE
    /\ weaviate_up = TRUE
    /\ summaries \in {[u \in Users |-> IF u = "A" THEN h ELSE <<[topics |-> 1]>>] :
                        h \in Histories}
    /\ chunks \in ChunkLists
    /\ context = [status |-> "none"]
    /\ cstage = "request"

InitSpecScenario == InitScenario /\ IdleRun /\ IdlePII /\ IdleRL /\ IdleAPI /\ IdleFn

SpecScenario == InitSpecScenario /\ [][NextCtx]_vars

\* C18: for a live session of 3 turns totalling 50 estimated tokens and a
\* token budget of 100 split 40/35/25, build_context keeps all 3 turns and
\* records 50 tokens for the current-session tier, and the history and
\* similarity tiers are still filled against 35 and 25 tokens.
C18_ScenarioUnclipped ==
    cstage = "done" =>
        /\ context.status = "returned"
        /\ context.current_session = request.current_session
        /\ context.token_usage.breakdown.current_session = SCENARIO_TOKENS
        /\ context.token_usage.breakdown.recent_history <= 35
        /\ context.token_usage.breakdown.relevant_past <= 25

(***************************************************************************)
(* search_similar_conversations on its own (specification SpecSearch).     *)
(* args = [near, limit, similarity_threshold, up]: the objects of the      *)
(* index in the order the nearText query ranks them (nearest first), each  *)
(* [conversation_id, distance], and the arguments of the call.             *)
(***************************************************************************)
MaxNear == 5              \* objects in the index
MaxLimit == 3             \* limit of a call

Distances == {20, 30, 56, 62, 100}
Thresholds == {50, 70, 90}

\* the index's answer to a query: nearest first (with_near_text, line 257)
NearLists ==
    {[i \in 1..Len(d) |-> [conversation_id |-> i, distance |-> d[i]]] :
        d \in {q \in SeqsUpTo(Distances, MaxNear) :
                  \A i \in 1..(Len(q) - 1) : q[i] <= q[i + 1]}}

InitSearch ==
    /\ args \in [near : NearLists, limit : 1..MaxLimit,
                  similarity_threshold : Thresholds, up : BOOLEAN]
    /\ result = <<>>
    /\ fstage = "call"

CallSearch ==
    /\ fstage = "call"
    /\ result' = search_similar_conversations(args.near, "none", args.limit,
                                               args.similarity_threshold, args.up)
    /\ fstage' = "done"
    /\ UNCHANGED <<args, runVars, piiVars, rlVars, apiVars, ctxVars>>

NextSearch == CallSearch

InitSpecSearch == InitSearch /\ IdleRun /\ IdlePII /\ IdleRL /\ IdleAPI /\ IdleCtx

SpecSearch == InitSpecSearch /\ [][NextSearch]_vars

\* C21: when the query is answered, search_similar_conversations returns
\* exactly the candidates whose similarity, 1 - distance/2, is at or above
\* the threshold, each with that similarity, sorted by similarity descending
\* and limited to limit: the limit best of them when there are more. For
\* similarities 0.9, 0.85, 0.72, 0.69, 0.5 at threshold 0.7 these are the
\* first three, in that order.
C21_ThresholdSortLimit ==
    (fstage = "done" /\ args.up) =>
        LET near == args.near
            qualifying == {i \in 1..Len(near) :
                              200 - near[i].distance >= 2 * args.similarity_threshold}
            returned == {i \in qualifying : \E k \in 1..Len(result) :
                              result[k].conversation_id = near[i].conversation_id}
        IN /\ Len(result) = Min(args.limit, Cardinality(qualifying))
           /\ Cardinality(returned) = Len(result)
           /\ \A k \in 1..Len(result) : \E i \in qualifying :
                  /\ result[k].conversation_id = near[i].conversation_id
                  /\ 2 * result[k].similarity = 200 - near[i].distance
           /\ \A k \in 1..(Len(result) - 1) :
                  result[k].similarity >= result[k + 1].similarity
           /\ \A i \in qualifying \ returned : \A j \in returned :
                  near[i].distance >= near[j].distance
           /\ ( /\ [i \in 1..Len(near) |-> near[i].distance] = <<20, 30, 56, 62, 100>>
                /\ args.similarity_threshold = 70
                /\ args.limit >= 3 )
              => [k \in 1..Len(result) |-> result[k].conversation_id] = <<1, 2, 3>>

\* the threshold drops a candidate and the limit drops a qualifying one
C21_Witness ==
    /\ fstage = "done"
    /\ args.up
    /\ Len(result) = args.limit
    /\ args.limit > 1
    /\ \E i, j \in 1..Len(args.near) :
          /\ 200 - args.near[i].distance >= 2 * args.similarity_threshold
          /\ \A k \in 1..Len(result) :
                result[k].conversation_id # args.near[i].conversation_id
          /\ 200 - args.near[j].distance < 2 * args.similarity_threshold

(***************************************************************************)
(* format_for_llm on its own (specification SpecFormat). The prompt is the *)
(* list of sections that "\n".join puts together (line 514); a section is  *)
(* [block, part, of]: the block it belongs to, which line of the block it  *)
(* is, and the entry of the bundle it prints. args is the bundle:          *)
(*   recent_history         summaries [title, topics, first_message_preview]*)
(*   relevant_past_context  results [similarity]                           *)
(*   current_session        messages                                       *)
(*   token_usage            <<>> when the bundle has none                  *)
(***************************************************************************)
MaxEntries == 2           \* entries of each list of a bundle

section(block, part, of) == [block |-> block, part |-> part, of |-> of]

RECURSIVE Flatten(_)
Flatten(qs) == IF qs = <<>> THEN <<>> ELSE Head(qs) \o Flatten(Tail(qs))

\* line 473
preamble_block == <<section("preamble", "=== THERAPEUTIC CONTEXT ===", 0)>>

\* lines 476-491
history_block(bundle) ==
    IF bundle.recent_history = <<>> THEN <<>>
    ELSE <<section("history", "=== RECENT CONVERSATION HISTORY ===", 0)>>
         \o Flatten([i \in 1..Len(bundle.recent_history) |->
                LET conv == bundle.recent_history[i]
                IN <<section("history", "Session", i)>>
                   \o (IF conv.title THEN <<section("history", "Title", i)>> ELSE <<>>)
                   \o (IF conv.topics > 0 THEN <<section("history", "Topics", i)>> ELSE <<>>)
                   \o <<section("history", "Messages", i)>>
                   \o (IF conv.first_message_preview
                       THEN <<section("history", "Started with", i)>> ELSE <<>>)])
         \o <<section("history", "", 0)>>

\* lines 494-501
relevant_block(bundle) ==
    IF bundle.relevant_past_context = <<>> THEN <<>>
    ELSE <<section("relevant", "=== RELEVANT PAST MOMENTS ===", 0),
           section("relevant", "(Similar situations from past conversations)", 0)>>
         \o Flatten([i \in 1..Len(bundle.relevant_past_context) |->
                <<section("relevant", "relevant", i),
                  section("relevant", "text_chunk", i),
                  section("relevant", "", i)>>])

\* lines 504-507
session_block(bundle) ==
    IF bundle.current_session = <<>> THEN <<>>
    ELSE <<section("session", "=== CURRENT SESSION ===", 0),
           section("session", "messages", format_messages(bundle.current_session)),
           section("session", "", 0)>>

\* lines 510-512
usage_block(bundle) ==
    IF bundle.token_usage = <<>> THEN <<>>
    ELSE <<section("usage", "Context", bundle.token_usage.total_used)>>

format_for_llm_session_first(bundle) ==
    preamble_block \o session_block(bundle) \o history_block(bundle)
    \o relevant_block(bundle) \o usage_block(bundle)

\* format_for_llm (lines 461-514)
format_for_llm(bundle) ==
    preamble_block \o history_block(bundle) \o relevant_block(bundle)
    \o session_block(bundle) \o usage_block(bundle)

FormatSummaries == [title : BOOLEAN, topics : {0, 5}, first_message_preview : BOOLEAN]
FormatResults == {[similarity |-> 90], [similarity |-> 72]}
Usages == {<<>>, [total_used |-> 11, budget |-> 24, utilization |-> 45]}

InitFormat ==
    /\ args \in [recent_history : SeqsUpTo(FormatSummaries, MaxEntries),
                  relevant_past_context : SeqsUpTo(FormatResults, MaxEntries),
                  current_session : SeqsUpTo(Messages, MaxEntries),
                  token_usage : Usages]
    /\ result = <<>>
    /\ fstage = "call"

CallFormat ==
    /\ fstage = "call"
    /\ result' = format_for_llm(args)
    /\ fstage' = "done"
    /\ UNCHANGED <<args, runVars, piiVars, rlVars, apiVars, ctxVars>>

NextFormat == CallFormat

InitSpecFormat == InitFormat /\ IdleRun /\ IdlePII /\ IdleRL /\ IdleAPI /\ IdleCtx

SpecFormat == InitSpecFormat /\ [][NextFormat]_vars

\* the place of a block in the order the claim gives
BlockRank(block) ==
    CASE block = "preamble" -> 0
      [] block = "history" -> 1
      [] block = "relevant" -> 2
      [] block = "session" -> 3
      [] block = "usage" -> 4

\* C22: format_for_llm emits its blocks in one fixed order for every
\* bundle: the recent-history block, then the relevant-past block, then the
\* current-session block, then the usage-accounting line, which is the last
\* line when the bundle has usage figures; no section of a block comes
\* before a section of a block that precedes it in this order, and a block
\* is emitted exactly when the bundle has entries for it. (The prompt is a
\* function of the bundle alone: the code reads no clock, no random source
\* and no unordered collection.)
C22_FixedBlockOrder ==
    fstage = "done" =>
        LET blocks == {result[i].block : i \in 1..Len(result)}
        IN /\ \A i, j \in 1..Len(result) :
                  i < j => BlockRank(result[i].block) <= BlockRank(result[j].block)
           /\ "history" \in blocks <=> args.recent_history # <<>>
           /\ "relevant" \in blocks <=> args.relevant_past_context # <<>>
           /\ "session" \in blocks <=> args.current_session # <<>>
           /\ args.token_usage # <<>> => result[Len(result)].block = "usage"
           /\ args.token_usage = <<>> => "usage" \notin blocks
           /\ \A i, j \in 1..Len(result) :
                  (i < j /\ result[i].block = result[j].block
                   /\ result[i].of > 0 /\ result[j].of > 0
                   /\ result[i].block \in {"history", "relevant"})
                  => result[i].of <= result[j].of

\* a bundle with all three lists and usage figures has been formatted
C22_Witness ==
    /\ fstage = "done"
    /\ Len(args.recent_history) = MaxEntries
    /\ Len(args.relevant_past_context) = MaxEntries
    /\ Len(args.current_session) = MaxEntries
    /\ args.token_usage # <<>>
    /\ {result[i].block : i \in 1..Len(result)}
          = {"preamble", "history", "relevant", "session", "usage"}

(***************************************************************************)
(* chunk_text on its own (specification SpecChunk). A string is the        *)
(* sequence of its characters; " " stands for any whitespace.              *)
(* args = [text, size].                                                    *)
(***************************************************************************)
MaxChars == 5             \* characters of a text
MaxSize == 3              \* words per chunk (CHUNK_SIZE)

Chars == {"a", "b", " "}
Strings == SeqsUpTo(Chars, MaxChars)

\* str.split(): the maximal runs of non-whitespace characters
RECURSIVE split_from(_, _, _)
split_from(text, word, words) ==
    IF text = <<>>
    THEN IF word = <<>> THEN words ELSE Append(words, word)
    ELSE IF Head(text) = " "
    THEN split_from(Tail(text), <<>>, IF word = <<>> THEN words ELSE Append(words, word))
    ELSE split_from(Tail(text), Append(word, Head(text)), words)

split(text) == split_from(text, <<>>, <<>>)

\* sep.join(strings)
RECURSIVE join(_, _)
join(strings, sep) ==
    IF strings = <<>> THEN <<>>
    ELSE IF Len(strings) = 1 THEN Head(strings)
    ELSE Head(strings) \o sep \o join(Tail(strings), sep)

\* words[i:i+size] of Python, i counted from 0
slice(words, i, size) == SubSeq(words, i + 1, Min(i + size, Len(words)))

chunk_text_skipping(text, size) ==
    LET words == split(text)
    IN IF Len(words) <= size THEN <<text>>
       ELSE [k \in 1..((Len(words) + size) \div (size + 1)) |->
                join(slice(words, (k - 1) * (size + 1), size), <<" ">>)]

\* chunk_text (embeddings.py:433-438)
chunk_text(text, size) ==
    LET words == split(text)
    IN IF Len(words) <= size THEN <<text>>
       ELSE [k \in 1..((Len(words) + size - 1) \div size) |->
                join(slice(words, (k - 1) * size, size), <<" ">>)]

\* ' '.join(text.split()) (embeddings.py:429): the normalized texts are
\* those it leaves as they are
normalize_whitespace(text) == join(split(text), <<" ">>)

InitChunk ==
    /\ args \in [text : Strings, size : 1..MaxSize]
    /\ result = <<>>
    /\ fstage = "call"

CallChunk ==
    /\ fstage = "call"
    /\ result' = chunk_text(args.text, args.size)
    /\ fstage' = "done"
    /\ UNCHANGED <<args, runVars, piiVars, rlVars, apiVars, ctxVars>>

NextChunk == CallChunk

InitSpecChunk == InitChunk /\ IdleRun /\ IdlePII /\ IdleRL /\ IdleAPI /\ IdleCtx

SpecChunk == InitSpecChunk /\ [][NextChunk]_vars

\* C23: for every normalized text and every word budget N >= 1, the chunks
\* of chunk_text joined with single spaces are the text again, every chunk
\* has at most N words, and the chunks hold the text's words in input
\* order.
C23_ChunkRoundTrip ==
    (fstage = "done" /\ normalize_whitespace(args.text) = args.text) =>
        /\ join(result, <<" ">>) = args.text
        /\ \A k \in 1..Len(result) : Len(split(result[k])) <= args.size
        /\ Flatten([k \in 1..Len(result) |-> split(result[k])]) = split(args.text)

\* a text of several words is cut into a full chunk and a shorter last one
C23_Witness ==
    /\ fstage = "done"
    /\ normalize_whitespace(args.text) = args.text
    /\ Len(result) = 2
    /\ Len(split(result[1])) = args.size
    /\ args.size > 1
    /\ Len(split(result[2])) < args.size

(***************************************************************************)
(* The sanitizer of the migration applied to its own output (specification *)
(* SpecSanitize). args is the text; result = [once, twice].                *)
(***************************************************************************)
InitSanitize ==
    /\ args \in Texts
    /\ result = [once |-> <<>>, twice |-> <<>>]
    /\ fstage = "call"

SanitizeOnce ==
    /\ fstage = "call"
    /\ result' = [result EXCEPT !.once = preprocess_text_for_embedding(args)]
    /\ fstage' = "once"
    /\ UNCHANGED <<args, runVars, piiVars, rlVars, apiVars, ctxVars>>

SanitizeAgain ==
    /\ fstage = "once"
    /\ result' = [result EXCEPT !.twice = preprocess_text_for_embedding(result.once)]
    /\ fstage' = "done"
    /\ UNCHANGED <<args, runVars, piiVars, rlVars, apiVars, ctxVars>>

NextSanitize ==
    \/ SanitizeOnce
    \/ SanitizeAgain

InitSpecSanitize == InitSanitize /\ IdleRun /\ IdlePII /\ IdleRL /\ IdleAPI /\ IdleCtx

SpecSanitize == InitSpecSanitize /\ [][NextSanitize]_vars

\* C24: the PII sanitizer (PII redaction followed by normalization) is
\* idempotent: applied to its own output it yields that same output.
C24_SanitizerIdempotent ==
    fstage = "done" => result.twice = result.once

(***************************************************************************)
(* detect_crisis_content on its own (specification SpecCrisis). A message  *)
(* is [speaker, suicidal, self_harm, hopelessness]: who said it and which  *)
(* groups of crisis patterns its text matches. args is the message list.   *)
(***************************************************************************)
MaxCrisisTurns == 2       \* messages of a conversation

CrisisMessages == [speaker : {"User", "Provider"}, suicidal : BOOLEAN,
                   self_harm : BOOLEAN, hopelessness : BOOLEAN]

\* lines 284-289
no_indicators ==
    [containsSuicidalContent |-> FALSE, containsSelfHarmContent |-> FALSE,
     containsHopelessness |-> FALSE, crisisLevel |-> "none"]

\* lines 292-314: the body of the loop for one message
scan_message(crisis_indicators, msg) ==
    IF msg.speaker # "User" THEN crisis_indicators
    ELSE LET s1 == IF msg.suicidal
                   THEN [crisis_indicators EXCEPT !.containsSuicidalContent = TRUE,
                                                  !.crisisLevel = "critical"]
                   ELSE crisis_indicators
             s2 == IF msg.self_harm
                   THEN [s1 EXCEPT !.containsSelfHarmContent = TRUE,
                                   !.crisisLevel = IF @ = "none" THEN "high" ELSE @]
                   ELSE s1
             s3 == IF msg.hopelessness
                   THEN [s2 EXCEPT !.containsHopelessness = TRUE,
                                   !.crisisLevel = IF @ = "none" THEN "medium" ELSE @]
                   ELSE s2
         IN s3

RECURSIVE scan_messages(_, _)
scan_messages(crisis_indicators, messages) ==
    IF messages = <<>> THEN crisis_indicators
    ELSE scan_messages(scan_message(crisis_indicators, Head(messages)), Tail(messages))

\* detect_crisis_content (migrate_transcriptions.py:263-315)
detect_crisis_content(messages) == scan_messages(no_indicators, messages)

InitCrisis ==
    /\ args \in SeqsUpTo(CrisisMessages, MaxCrisisTurns)
    /\ result = <<>>
    /\ fstage = "call"

CallCrisis ==
    /\ fstage = "call"
    /\ result' = detect_crisis_content(args)
    /\ fstage' = "done"
    /\ UNCHANGED <<args, runVars, piiVars, rlVars, apiVars, ctxVars>>

NextCrisis == CallCrisis

InitSpecCrisis == InitCrisis /\ IdleRun /\ IdlePII /\ IdleRL /\ IdleAPI /\ IdleCtx

SpecCrisis == InitSpecCrisis /\ [][NextCrisis]_vars

\* C25: detect_crisis_content assigns the conversation the highest severity
\* matched in any user turn (none < medium < high < critical: hopelessness
\* is medium, self-harm high, suicidal content critical), whatever the order
\* of the turns that hold the matches.
C25_HighestSeverity ==
    fstage = "done" =>
        LET user_turns == {i \in 1..Len(args) : args[i].speaker = "User"}
        IN result.crisisLevel =
              IF \E i \in user_turns : args[i].suicidal THEN "critical"
              ELSE IF \E i \in user_turns : args[i].self_harm THEN "high"
              ELSE IF \E i \in user_turns : args[i].hopelessness THEN "medium"
              ELSE "none"

(***************************************************************************)
(* transform_transcription on its own (specification SpecTransform). An    *)
(* entry of the transcriptions array is modelled by what the filters make  *)
(* of its text:                                                            *)
(*   "short"    fewer than 3 characters (line 490)                         *)
(*   "emptied"  fewer than 3 characters after preprocessing (line 506)     *)
(*   "invalid"  rejected by validate_for_embedding (line 513)              *)
(*   "valid"    kept                                                       *)
(* args is the transcriptions array; result is None or the conversation    *)
(* with its messages, each [turnIndex, entry] with entry the place of its  *)
(* text in the input.                                                      *)
(***************************************************************************)
MaxTranscriptions == 5    \* entries of a transcription document
MIN_MESSAGES == 2         \* migrate_transcriptions.py:87 (20), scaled down
WARNING_THRESHOLD == 3    \* migrate_transcriptions.py:89 (1000), scaled down
HARD_LIMIT == 4           \* migrate_transcriptions.py:90 (2000), scaled down

EntryKinds == {"short", "emptied", "invalid", "valid"}

\* validate_conversation_length (lines 372-413): the action it recommends
length_action(length) ==
    IF length < MIN_MESSAGES THEN "skip"
    ELSE IF length <= WARNING_THRESHOLD THEN "accept"
    ELSE "truncate"

next_turn_index_stuck(turn_index) == turn_index

\* line 529: turn_index += 1
next_turn_index(turn_index) == turn_index + 1

\* the loop of lines 485-529
RECURSIVE transform_entries(_, _, _, _)
transform_entries(transcriptions, i, messages, turn_index) ==
    IF i > Len(transcriptions) THEN messages
    ELSE IF transcriptions[i] # "valid"
    THEN transform_entries(transcriptions, i + 1, messages, turn_index)
    ELSE transform_entries(transcriptions, i + 1,
                           Append(messages, [turnIndex |-> turn_index, entry |-> i]),
                           next_turn_index(turn_index))

\* lines 534 and 546: return None
None == [conversation |-> FALSE, messages |-> <<>>]

\* transform_transcription (lines 464-558): the messages of the conversation
transform_transcription(transcriptions) ==
    LET messages == transform_entries(transcriptions, 1, <<>>, 0)
        action == length_action(Len(messages))
    IN IF messages = <<>> THEN None
       ELSE IF action = "skip" THEN None
       ELSE IF action = "truncate"
       THEN [conversation |-> TRUE, messages |-> Prefix(messages, HARD_LIMIT)]
       ELSE [conversation |-> TRUE, messages |-> messages]

InitTransform ==
    /\ args \in SeqsUpTo(EntryKinds, MaxTranscriptions)
    /\ result = <<>>
    /\ fstage = "call"

CallTransform ==
    /\ fstage = "call"
    /\ result' = transform_transcription(args)
    /\ fstage' = "done"
    /\ UNCHANGED <<args, runVars, piiVars, rlVars, apiVars, ctxVars>>

NextTransform == CallTransform

InitSpecTransform == InitTransform /\ IdleRun /\ IdlePII /\ IdleRL /\ IdleAPI /\ IdleCtx

SpecTransform == InitSpecTransform /\ [][NextTransform]_vars

\* C26: in every conversation transform_transcription produces, the turns'
\* ordinal positions (turnIndex) are strictly increasing, hence unique, in
\* message order, and the messages keep the order of the input, whichever
\* input turns preprocessing or validation filtered out.
C26_TurnIndexIncreasing ==
    (fstage = "done" /\ result.conversation) =>
        \A i, j \in 1..Len(result.messages) :
            i < j => /\ result.messages[i].turnIndex < result.messages[j].turnIndex
                     /\ result.messages[i].entry < result.messages[j].entry

\* a conversation whose kept turns have filtered turns between them
C26_Witness ==
    /\ fstage = "done"
    /\ result.conversation
    /\ Len(result.messages) >= 2
    /\ \E i \in 1..(Len(result.messages) - 1) :
          result.messages[i + 1].entry > result.messages[i].entry + 1
    /\ \E k \in 1..Len(args) : args[k] = "emptied"
    /\ \E k \in 1..Len(args) : args[k] = "invalid"

(***************************************************************************)
(* The sub-batch loop of process_conversation (specification SpecSub),     *)
(* lines 706-736, run by one worker while the other workers' calls of      *)
(* get_batch_embeddings change the shared rate_limit_state. The chunks     *)
(* that passed the minimum-character floor are numbered 1..args; result is *)
(*   [i, step, insert_data, chunk_count, status]                           *)
(* with i and step those of range(0, len(all_chunks), step), insert_data   *)
(* the numbers of the chunks of the insert records, in order.              *)
(***************************************************************************)
MaxLoopChunks == 4        \* chunks of the conversation (len(all_chunks))
MaxOwnHits == 1           \* rate-limit responses to one sub-batch before it succeeds

RECURSIVE Iterate(_, _, _)
Iterate(f(_), k, x) == IF k = 0 THEN x ELSE Iterate(f, k - 1, f(x))

InitSub ==
    /\ args \in 1..MaxLoopChunks
    /\ result = [i |-> 0, step |-> 0, insert_data |-> <<>>, chunk_count |-> 0,
                 status |-> "start"]
    /\ fstage = "call"

\* line 709: range(0, len(all_chunks), rate_limit_state.current_batch_size)
\* is evaluated once, when the loop starts
Sub_EnterLoop ==
    /\ fstage = "call"
    /\ result' = [result EXCEPT !.step = rate_limit_state.current_batch_size,
                                !.status = "loop"]
    /\ fstage' = "loop"
    /\ UNCHANGED <<args, rlVars, runVars, piiVars, apiVars, ctxVars>>

\* lines 710-731: one iteration whose get_batch_embeddings returns, after
\* hits rate-limit responses; batch_size is read again (line 711)
Sub_Batch(hits) ==
    /\ fstage = "loop"
    /\ result.i < args
    /\ rate_limit_state.rate_limit_hits + hits <= MaxHits
    /\ rate_limit_state.consecutive_successes < MaxStreak
    /\ LET batch_size == rate_limit_state.current_batch_size
           batch_chunks == [k \in 1..(Min(result.i + batch_size, args) - result.i) |->
                               result.i + k]
       IN result' = [result EXCEPT !.insert_data = @ \o batch_chunks,
                                   !.i = @ + result.step]
    /\ rate_limit_state' = on_success(Iterate(on_rate_limit, hits, rate_limit_state))
    /\ hitCalls' = hitCalls + hits
    /\ UNCHANGED <<args, fstage, rlConfig, wpc, wtmp, lastCall,
                   runVars, piiVars, apiVars, ctxVars>>

\* lines 732-734: get_batch_embeddings raises; return call_id, [], 0
Sub_BatchFails ==
    /\ fstage = "loop"
    /\ result.i < args
    /\ result' = [result EXCEPT !.insert_data = <<>>, !.chunk_count = 0,
                                !.status = "failed"]
    /\ fstage' = "done"
    /\ UNCHANGED <<args, rlVars, runVars, piiVars, apiVars, ctxVars>>

\* line 736: return call_id, insert_data, len(all_chunks)
Sub_Return ==
    /\ fstage = "loop"
    /\ result.i >= args
    /\ result' = [result EXCEPT !.chunk_count = args, !.status = "returned"]
    /\ fstage' = "done"
    /\ UNCHANGED <<args, rlVars, runVars, piiVars, apiVars, ctxVars>>

\* another worker's get_batch_embeddings gets a response
Sub_OtherWorker ==
    /\ fstage \in {"call", "loop"}
    /\ \/ CallOnRateLimit
       \/ CallOnSuccess

NextSub ==
    \/ Sub_EnterLoop
    \/ \E hits \in 0..MaxOwnHits : Sub_Batch(hits)
    \/ Sub_BatchFails
    \/ Sub_Return
    \/ Sub_OtherWorker

InitSpecSub == InitSub /\ InitRL /\ IdleRun /\ IdlePII /\ IdleAPI /\ IdleCtx

SpecSub == InitSpecSub /\ [][NextSub]_vars

\* C27: sub-batching covers every chunk exactly once: when
\* process_conversation reports success, the insert records correspond
\* one-to-one and in chunk order to the chunks that passed the floor, also
\* when the adaptive batch size shrank or grew (through this or another
\* worker) while the sub-batches were embedded, and the chunk count it
\* returns is the number of records.
C27_EveryChunkOnce ==
    (fstage = "done" /\ result.status = "returned") =>
        /\ result.insert_data = [k \in 1..args |-> k]
        /\ result.chunk_count = Len(result.insert_data)

(***************************************************************************)
(* The waits of one get_batch_embeddings call (specification SpecBackoff). *)
(* Times are in milliseconds. An error of the API is                       *)
(*   [rate_limit, retry_after]   whether its text names a rate limit, and  *)
(*                               the "try again in" hint it carries:       *)
(*                               [value, unit], unit "none" without one    *)
(* result = [retry_count, waits, status]: waits lists, for every failed    *)
(* attempt that was retried, [error, retry_count, wait_time].              *)
(***************************************************************************)
NoHint == [value |-> 0, unit |-> "none"]
Hints == {NoHint, [value |-> 500, unit |-> "ms"], [value |-> 2, unit |-> "s"],
          [value |-> 0, unit |-> "s"]}
Errors == [rate_limit : BOOLEAN, retry_after : Hints]

\* parse_retry_after (lines 461-473), in milliseconds; matched = FALSE
\* stands for None
parse_retry_after(error) ==
    IF error.retry_after.unit = "none" THEN [matched |-> FALSE, ms |-> 0]
    ELSE IF error.retry_after.unit = "ms"
    THEN [matched |-> TRUE, ms |-> error.retry_after.value]
    ELSE [matched |-> TRUE, ms |-> error.retry_after.value * 1000]

\* an exponential backoff whose exponent counts the attempts from 1
wait_time_of_from_one(error, rc) ==
    IF error.rate_limit
    THEN LET retry_after == parse_retry_after(error)
         IN IF retry_after.matched /\ retry_after.ms # 0
            THEN (retry_after.ms * 12) \div 10
            ELSE RETRY_DELAY * 1000 * Pow2(rc + 1)
    ELSE RETRY_DELAY * 1000 * (rc + 1)

\* lines 496-520: wait_time; "if retry_after:" (line 506) takes a hint of
\* 0 like a missing one
wait_time_of(error, rc) ==
    IF error.rate_limit
    THEN LET retry_after == parse_retry_after(error)
         IN IF retry_after.matched /\ retry_after.ms # 0
            THEN (retry_after.ms * 12) \div 10
            ELSE RETRY_DELAY * 1000 * Pow2(rc)
    ELSE RETRY_DELAY * 1000 * (rc + 1)

InitBackoff ==
    /\ args = <<>>
    /\ result = [retry_count |-> 0, waits |-> <<>>, status |-> "calling"]
    /\ fstage = "call"

\* lines 491-523: the attempt fails and is retried after wait_time
Backoff_Retry(error) ==
    /\ fstage = "call"
    /\ may_retry(result.retry_count)
    /\ result' = [result EXCEPT
                     !.waits = Append(@, [error |-> error,
                                          retry_count |-> result.retry_count,
                                          wait_time |-> wait_time_of(error, result.retry_count)]),
                     !.retry_count = @ + 1]
    /\ UNCHANGED <<args, fstage, runVars, piiVars, rlVars, apiVars, ctxVars>>

\* lines 524-526: the attempt fails and no retry is left
Backoff_Raise ==
    /\ fstage = "call"
    /\ ~may_retry(result.retry_count)
    /\ result' = [result EXCEPT !.status = "raised"]
    /\ fstage' = "done"
    /\ UNCHANGED <<args, runVars, piiVars, rlVars, apiVars, ctxVars>>

\* lines 488-489: the attempt succeeds
Backoff_Return ==
    /\ fstage = "call"
    /\ result' = [result EXCEPT !.status = "returned"]
    /\ fstage' = "done"
    /\ UNCHANGED <<args, runVars, piiVars, rlVars, apiVars, ctxVars>>

NextBackoff ==
    \/ \E error \in Errors : Backoff_Retry(error)
    \/ Backoff_Raise
    \/ Backoff_Return

InitSpecBackoff == InitBackoff /\ IdleRun /\ IdlePII /\ IdleRL /\ IdleAPI /\ IdleCtx

SpecBackoff == InitSpecBackoff /\ [][NextBackoff]_vars

InitOutcomes ==
    /\ args = <<>>
    /\ result = [retry_count |-> 0, ok_run |-> 0]
    /\ fstage = "call"

\* what the except branch does to retry_count: the retry is the call with
\* retry_count + 1 (line 523); after the raise (line 526) the next batch
\* starts at 0
after_failure(rc) == IF may_retry(rc) THEN rc + 1 ELSE 0

\* lines 488-489
Outcome_Success ==
    /\ rate_limit_state.consecutive_successes < MaxStreak
    /\ rate_limit_state' = on_success(rate_limit_state)
    /\ result' = [retry_count |-> 0, ok_run |-> Min(result.ok_run + 1, GROW_AFTER)]
    /\ UNCHANGED <<args, fstage, rlConfig, wpc, wtmp, lastCall, hitCalls,
                   runVars, piiVars, apiVars, ctxVars>>

\* lines 493-501 and 524-526: on_rate_limit is called when a retry is left
Outcome_RateLimit ==
    /\ rate_limit_state.rate_limit_hits < MaxHits
    /\ rate_limit_state' = IF may_retry(result.retry_count)
                           THEN on_rate_limit(rate_limit_state)
                           ELSE rate_limit_state
    /\ hitCalls' = IF may_retry(result.retry_count) THEN hitCalls + 1 ELSE hitCalls
    /\ result' = [retry_count |-> after_failure(result.retry_count), ok_run |-> 0]
    /\ UNCHANGED <<args, fstage, rlConfig, wpc, wtmp, lastCall,
                   runVars, piiVars, apiVars, ctxVars>>

\* lines 516-526: an error that is no rate limit leaves the state alone
Outcome_Error ==
    /\ result' = [retry_count |-> after_failure(result.retry_count), ok_run |-> 0]
    /\ UNCHANGED <<args, fstage, rlVars, runVars, piiVars, apiVars, ctxVars>>

NextOutcomes ==
    \/ Outcome_Success
    \/ Outcome_RateLimit
    \/ Outcome_Error

InitSpecOutcomes == InitOutcomes /\ InitRL /\ IdleRun /\ IdlePII /\ IdleAPI /\ IdleCtx

SpecOutcomes == InitSpecOutcomes /\ [][NextOutcomes]_vars

\* C30: the batch size grows only after a run of 10 consecutive successes:
\* whenever current_batch_size increases, the 10 most recent responses of
\* the embedding API were all successes, with no rate limit and no other
\* error among them.
C30_GrowsAfterTenSuccesses ==
    [][rate_limit_state'.current_batch_size > rate_limit_state.current_batch_size
          => result'.ok_run >= 10]_vars

(***************************************************************************)
(* extract_symptoms and extract_coping_strategies                          *)
(* (migrate_transcriptions.py:318-369), one call of each on the messages   *)
(* of a conversation (specification SpecTags). A message's text is the set *)
(* of the keywords that occur in it.                                       *)
(***************************************************************************)
MaxTagTurns == 2          \* messages of a conversation

TagWords == {"anxious", "tired", "walk", "music"}

\* lines 322-329: category -> the words its pattern matches
symptom_keywords == [anxiety |-> {"anxious"}, fatigue |-> {"tired"}]

\* lines 348-358
strategy_keywords == [exercise |-> {"walk"}, music |-> {"music"}]

\* re.search(pattern, text, re.IGNORECASE) for each entry of the table
matched(keywords, text) == {k \in DOMAIN keywords : keywords[k] \cap text # {}}

\* extract_symptoms (lines 331-341): the messages of speaker "User" only
RECURSIVE extract_symptoms(_)
extract_symptoms(messages) ==
    IF messages = <<>> THEN {}
    ELSE LET msg == Head(messages)
         IN (IF msg.speaker = "User" THEN matched(symptom_keywords, msg.message)
             ELSE {})
            \cup extract_symptoms(Tail(messages))

\* extract_coping_strategies (lines 360-369): every message
RECURSIVE extract_coping_strategies(_)
extract_coping_strategies(messages) ==
    IF messages = <<>> THEN {}
    ELSE matched(strategy_keywords, Head(messages).message)
         \cup extract_coping_strategies(Tail(messages))

TagMessages == [speaker : {"User", "Provider"}, message : SUBSET TagWords]

InitTags ==
    /\ args \in SeqsUpTo(TagMessages, MaxTagTurns)
    /\ result = <<>>
    /\ fstage = "call"

\* transform_transcription, lines 562-563
CallTags ==
    /\ fstage = "call"
    /\ result' = [symptoms |-> extract_symptoms(args),
                  coping_strategies |-> extract_coping_strategies(args)]
    /\ fstage' = "done"
    /\ UNCHANGED <<args, runVars, piiVars, rlVars, apiVars, ctxVars>>

NextTags == CallTags

InitSpecTags == InitTags /\ IdleRun /\ IdlePII /\ IdleRL /\ IdleAPI /\ IdleCtx

SpecTags == InitSpecTags /\ [][NextTags]_vars

\* C34: the symptom tag set of a conversation is the union, over all of its
\* turns regardless of speaker role, of the symptom categories whose
\* keywords occur in the turn; likewise the coping-strategy set is the union
\* over all turns.
C34_TagsOverAllTurns ==
    fstage = "done" =>
        /\ result.symptoms =
              UNION {matched(symptom_keywords, args[i].message) : i \in 1..Len(args)}
        /\ result.coping_strategies =
              UNION {matched(strategy_keywords, args[i].message) : i \in 1..Len(args)}

(***************************************************************************)
(* The labelling of a conversation's chunks by process_conversation        *)
(* (embeddings.py:617-704), one call (specification SpecLabel). A turn is  *)
(* its speaker and the number of words of its formatted text               *)
(* "[speaker]: text", 0 for a turn that lines 626-634 skip; a word of the  *)
(* aggregated conversation is the index of the turn it comes from.         *)
(***************************************************************************)
CHUNK_SIZE == 3           \* embeddings.py:36 (default 800), scaled down
MaxLabelTurns == 3        \* messages of a conversation

LabelMessages == [speaker : {"Patient", "Provider"}, word_count : {0, 2, 4}]

\* lines 620-646: the turns that have text, with their index in messages
turn_metadata(messages) ==
    LET indexed == [i \in 1..Len(messages) |->
                       [turn_index |-> i - 1, speaker |-> messages[i].speaker,
                        word_count |-> messages[i].word_count]]
    IN SelectSeq(indexed, LAMBDA meta : meta.word_count > 0)

\* lines 662-672
RECURSIVE word_positions_from(_, _)
word_positions_from(metas, cumulative_words) ==
    IF metas = <<>> THEN <<>>
    ELSE LET meta == Head(metas)
         IN <<[turn_index |-> meta.turn_index, speaker |-> meta.speaker,
               start_word |-> cumulative_words,
               end_word |-> cumulative_words + meta.word_count]>>
            \o word_positions_from(Tail(metas), cumulative_words + meta.word_count)

\* lines 652-655: the words of " ".join(conversation_text), in slices of
\* CHUNK_SIZE as chunk_text cuts them
conversation_chunks(metas) ==
    LET words == Flatten([i \in 1..Len(metas) |->
                             [w \in 1..metas[i].word_count |-> metas[i].turn_index]])
    IN IF Len(words) <= CHUNK_SIZE THEN <<words>>
       ELSE [k \in 1..((Len(words) + CHUNK_SIZE - 1) \div CHUNK_SIZE) |->
                slice(words, (k - 1) * CHUNK_SIZE, CHUNK_SIZE)]

\* lines 683-694: the loop over word_positions for one chunk
RECURSIVE turn_of_chunk(_, _, _)
turn_of_chunk(positions, chunk_start_word, found) ==
    IF positions = <<>> THEN found
    ELSE LET position == Head(positions)
             here == [turn_index |-> position.turn_index, speaker |-> position.speaker]
         IN IF position.start_word <= chunk_start_word /\ chunk_start_word < position.end_word
            THEN here
            ELSE IF chunk_start_word >= position.end_word
            THEN turn_of_chunk(Tail(positions), chunk_start_word, here)
            ELSE turn_of_chunk(Tail(positions), chunk_start_word, found)

\* lines 648-704: all_metadata; short_tail says that the last chunk, of one
\* word, has fewer than 10 characters (line 676)
label_chunks(messages, short_tail) ==
    LET metas == turn_metadata(messages)
        positions == word_positions_from(metas, 0)
        pieces == conversation_chunks(metas)
        kept == {k \in 1..Len(pieces) :
                    ~(short_tail /\ k = Len(pieces) /\ Len(pieces[k]) = 1)}
        entry(k) ==
            LET chunk_index == k - 1
                at == turn_of_chunk(positions, chunk_index * CHUNK_SIZE,
                                    [turn_index |-> 0, speaker |-> "MIXED"])
            IN [turn_index |-> at.turn_index,
                speaker |-> IF chunk_index = 0 \/ Len(positions) = 1
                            THEN at.speaker ELSE "MIXED",
                chunk |-> pieces[k],
                chunk_index |-> chunk_index]
    IN IF metas = <<>> THEN <<>>
       ELSE SelectSeq([k \in 1..Len(pieces) |-> entry(k)],
                      LAMBDA m : (m.chunk_index + 1) \in kept)

InitLabel ==
    /\ args \in [messages : SeqsUpTo(LabelMessages, MaxLabelTurns),
                 short_tail : BOOLEAN]
    /\ result = <<>>
    /\ fstage = "call"

CallLabel ==
    /\ fstage = "call"
    /\ result' = label_chunks(args.messages, args.short_tail)
    /\ fstage' = "done"
    /\ UNCHANGED <<args, runVars, piiVars, rlVars, apiVars, ctxVars>>

NextLabel == CallLabel

InitSpecLabel == InitLabel /\ IdleRun /\ IdlePII /\ IdleRL /\ IdleAPI /\ IdleCtx

SpecLabel == InitSpecLabel /\ [][NextLabel]_vars

\* C35: every chunk whose words come from turns of more than one speaker is
\* labelled "mixed", and a chunk whose words all come from one speaker is
\* labelled with that speaker; the chunk's turn index is the index of the
\* turn containing the chunk's first word.
C35_ChunkLabels ==
    fstage = "done" =>
        \A n \in 1..Len(result) :
            LET m == result[n]
                speakers == {args.messages[m.chunk[w] + 1].speaker :
                                w \in 1..Len(m.chunk)}
            IN /\ Cardinality(speakers) > 1 => m.speaker = "MIXED"
               /\ Cardinality(speakers) = 1 => m.speaker \in speakers
               /\ m.turn_index = m.chunk[1]

(***************************************************************************)
(* The clinical profile of a conversation, from the annotator to the index *)
(* records (specification SpecProfile): transform_transcription stores it  *)
(* in the conversation document (migrate_transcriptions.py:560-586), and   *)
(* process_conversation reads the document and attaches the profile to     *)
(* each record (embeddings.py:603-610, 718-731).                           *)
(***************************************************************************)
\* what the annotator can return for a conversation: detect_crisis_content,
\* extract_symptoms, extract_coping_strategies, assess_conversation_outcome
Annotations ==
    [crisis_data : {detect_crisis_content(ms) :
                       ms \in SeqsUpTo(CrisisMessages, MaxCrisisTurns)},
     symptoms : SUBSET DOMAIN symptom_keywords,
     coping_strategies : SUBSET DOMAIN strategy_keywords,
     outcome : {"unknown", "positive", "concerning", "neutral"}]

\* migrate_transcriptions.py:571-586: the document; list(symptoms) holds
\* the set's members in no particular order and is kept as the set
conversation_document(a) ==
    [conversationId |-> "c1",
     clinicalContext |->
         [crisisLevel |-> a.crisis_data.crisisLevel,
          containsSuicidalContent |-> a.crisis_data.containsSuicidalContent,
          containsSelfHarmContent |-> a.crisis_data.containsSelfHarmContent,
          symptomsPresented |-> a.symptoms,
          copingStrategiesDiscussed |-> a.coping_strategies,
          conversationOutcome |-> a.outcome]]

\* dict.get(key, default)
get(d, key, default) == IF key \in DOMAIN d THEN d[key] ELSE default

\* embeddings.py:603-610 and 725-730: the values attached to each record
record_profile(call_data) ==
    LET clinical_context == get(call_data, "clinicalContext", <<>>)
    IN [crisis_level |-> get(clinical_context, "crisisLevel", "none"),
        contains_suicidal |-> get(clinical_context, "containsSuicidalContent", FALSE),
        contains_self_harm |-> get(clinical_context, "containsSelfHarmContent", FALSE),
        symptoms |-> get(clinical_context, "symptomsPresented", {}),
        coping_strategies |-> get(clinical_context, "copingStrategiesDiscussed", {}),
        outcome |-> get(call_data, "conversationOutcome", "unknown")]

InitProfile ==
    /\ args \in Annotations
    /\ result = <<>>
    /\ fstage = "annotated"

\* transform_transcription returns the document and it is inserted
StoreProfile ==
    /\ fstage = "annotated"
    /\ result' = [call_data |-> conversation_document(args)]
    /\ fstage' = "stored"
    /\ UNCHANGED <<args, runVars, piiVars, rlVars, apiVars, ctxVars>>

\* process_conversation builds the records of the stored document
AttachProfile ==
    /\ fstage = "stored"
    /\ result' = [call_data |-> result.call_data,
                  record |-> record_profile(result.call_data)]
    /\ fstage' = "done"
    /\ UNCHANGED <<args, runVars, piiVars, rlVars, apiVars, ctxVars>>

NextProfile ==
    \/ StoreProfile
    \/ AttachProfile

InitSpecProfile == InitProfile /\ IdleRun /\ IdlePII /\ IdleRL /\ IdleAPI /\ IdleCtx

SpecProfile == InitSpecProfile /\ [][NextProfile]_vars

\* C39: every index record of a conversation carries that conversation's
\* clinical profile exactly as the annotator stored it: the crisis level,
\* the suicidal and self-harm flags, the symptom set, the coping-strategy
\* set and the outcome classification written by transform_transcription
\* are the values that process_conversation attaches to each record.
C39_ProfileCarried ==
    fstage = "done" =>
        /\ result.record.crisis_level = args.crisis_data.crisisLevel
        /\ result.record.contains_suicidal = args.crisis_data.containsSuicidalContent
        /\ result.record.contains_self_harm = args.crisis_data.containsSelfHarmContent
        /\ result.record.symptoms = args.symptoms
        /\ result.record.coping_strategies = args.coping_strategies
        /\ result.record.outcome = args.outcome

====
